---- MODULE Spec2Model ----
(***************************************************************************)
(* Ingestion orchestration of CTTH: the daily pipeline orchestrator and    *)
(* its scheduler, the trade-record upsert of the Comtrade and Eurostat     *)
(* agents, and the retrying fetcher BaseAgent.safe_request.                *)
(***************************************************************************)
EXTENDS Integers, Sequences, FiniteSets, Bags, TLC

\* ------------------------------------------------------------------------
\* Bounds of the model
\* ------------------------------------------------------------------------
MaxRuns == 2        \* invocations of run_daily_pipeline explored
MaxActive == 2      \* invocations the environment lets be in progress at once
MaxClock == 1       \* last value of the wall clock, in whole UTC seconds
MaxFaults == 2      \* exceptions injected while one invocation runs alone
MaxOverlapFaults == 1 \* exceptions injected while invocations may overlap

MaxThreads == 2     \* agent threads that parse and store at the same time
MaxFetches == 2     \* upstream responses handed to the trade agents
MaxBatch == 2       \* records in one upstream response

MaxRetries == 3     \* largest max_retries passed to safe_request (default 3)

MaxJobs == 2        \* agent jobs run in one behaviour
MaxRecords == 2     \* records one sub-fetch or one update_status call reports
MaxOps == 3         \* status-tracker operations applied in one behaviour

MaxQueries == 2     \* search queries of one fetch_data of an AI-search agent

MaxArticles == 2    \* articles in one response a news agent stores

MaxHours == 50      \* hours of wall clock the scheduler is followed for

MaxTradeRows == 2   \* trade records the derive job aggregates

MaxRefreshes == 2   \* single-source refreshes in progress at the same time

\* ------------------------------------------------------------------------
\* Program constants
\* ------------------------------------------------------------------------
max_instances == 1  \* job_defaults["max_instances"]

QUOTA_GATE == 480   \* "if calls >= 480" of ComtradeAgent.fetch_data

max_workers == 4    \* ThreadPoolExecutor(max_workers=4) of the pipeline

DAY == 24           \* hours between two fire times of CronTrigger(hour, minute)

SCHEDULER_DAILY_HOUR == 2   \* settings.SCHEDULER_DAILY_HOUR

VARIABLES
    clock,          \* datetime.now(timezone.utc), truncated to seconds
    faults,         \* exceptions injected so far
    runLimit,       \* invocations the environment starts in this behaviour
    faultLimit,     \* exceptions the environment injects in this behaviour
    pc,             \* per invocation: position of the coroutine
    origin,         \* per invocation: "scheduled" (APScheduler) or "manual"
    run_id,         \* per invocation: run_id local
    start_time,     \* per invocation: start_time local
    end_time,       \* per invocation: end_time local
    futures,        \* per invocation: state of the four phase-1 futures
    phase_results,  \* per invocation: the phase_results dict
    phaseLog,       \* per invocation: phases in the order they were started
    writes,         \* per invocation: documents it stored in scheduler_runs
    skipped,        \* whether the latest cron firing was dropped
    scheduler_runs  \* the scheduler_runs collection

VARIABLES
    trade_data,     \* the trade_data collection, a bag of documents
    source,         \* the trade agent whose threads run in this behaviour
    thread,         \* per agent thread: the response it is parsing
    fetches,        \* upstream responses handed out so far
    lastOp,         \* the latest update_one call on trade_data
    seenKeys        \* natural keys handed to update_one so far

VARIABLES
    call,           \* the arguments of the safe_request call: url, max_retries
    attempt,        \* the loop variable of safe_request
    responses,      \* what each attempt so far got: a status code or none
    sleeps,         \* the arguments of the time.sleep calls so far, in order
    result,         \* "none" while in the loop, then "returned" or "raised"
    error           \* the exception that left safe_request

VARIABLES
    data_source_status, \* the data_source_status collection, a set of rows
    job,            \* the agent job that is running or ran last
    jobs,           \* agent jobs started so far
    issued,         \* per source: fetcher calls issued since the last reset
    ops,            \* status-tracker operations applied directly so far
    lastCall        \* the latest status-tracker operation applied directly

VARIABLES
    search          \* the fetch_data call of an AI-search agent

VARIABLES
    news_articles,  \* the collection: a bag of documents
    writer          \* writer[a]: the store loop of news agent a

nvars == <<news_articles, writer>>

VARIABLES
    cron            \* the scheduler's view of the daily_pipeline job

cvars == <<cron>>

VARIABLES
    market_segments,    \* the collection: a set of documents
    market_size_series, \* the collection: a set of documents
    derive              \* trade records and the last run of the derive job

dvars == <<market_segments, market_size_series, derive>>

VARIABLES
    pool            \* the jobs handed to _executor and to the default executor

wvars == <<pool>>

VARIABLES
    fw              \* the framework-regeneration phase

gvars == <<fw>>

xvars == <<nvars, cvars, dvars, wvars, gvars>>

qvars == <<search>>

avars == <<data_source_status, job, jobs, issued, ops, lastCall>>

svars == <<trade_data, source, thread, fetches, lastOp, seenKeys>>

fvars == <<call, attempt, responses, sleeps, result, error>>

rvars == <<faults, runLimit, faultLimit, pc, origin, run_id, start_time,
           end_time, futures, phase_results, phaseLog, writes, skipped,
           scheduler_runs>>

pvars == <<clock, rvars>>

Runs == 1..MaxRuns

\* the futures list of phase 1, in the order of pipeline.py
TradeJobs == <<"eurostat", "comtrade", "federal_register", "otexa">>

JobIdx == 1..Len(TradeJobs)

\* the keys of phase_results, in the order the phases run
PhaseOrder == <<"trade_agents", "news_agent", "market_research",
                "derive_data", "frameworks", "reset_counters">>

\* source reported by the job of a sequential phase
SeqSource(p) ==
    CASE p = "news_agent" -> "openai_search"
      [] p = "market_research" -> "market_research_agent"
      [] OTHER -> "none"

Finished == {"success", "error", "raised"}

\* a local that has not been assigned yet
Unset == 0 - 1

InProgress == {"phase1", "phase2", "phase3", "phase4", "phase5", "phase6",
               "store"}

Ended == {"done", "raised"}

\* cost of an outcome against the fault budget
Cost(o) == IF o = "success" THEN 0 ELSE 1

\* dict returned by job_fetch_<source>: success, or the error dict of its
\* except branch
JobDict(src, o) == [source |-> src, status |-> o]

\* {"status": "error", "message": str(exc)} built by the orchestrator
ErrorEntry == [source |-> "none", status |-> "error"]

\* (variant) the results that are exceptions are left out of the list
TradeEntriesSkipRaised(r) ==
    SelectSeq([j \in JobIdx |-> JobDict(TradeJobs[j], futures[r][j])],
              LAMBDA e : e.status # "raised")

\* phase_results["trade_agents"]: r if not isinstance(r, Exception) else error
TradeEntries(r) ==
    [j \in JobIdx |->
        IF futures[r][j] = "raised" THEN ErrorEntry
        ELSE JobDict(TradeJobs[j], futures[r][j])]

\* (variant) the coroutine resumes as soon as one future has finished
GatherFirstCompleted(r) == \E j \in JobIdx : futures[r][j] \in Finished

\* asyncio.gather(*futures, return_exceptions=True) resumes the coroutine
GatherReady(r) == \A j \in JobIdx : futures[r][j] \in Finished

\* (variant) the run is marked failed when a phase recorded an error
RunDocFailing(r) ==
    [_id |-> run_id[r],
     started_at |-> start_time[r],
     completed_at |-> end_time[r],
     duration_seconds |-> end_time[r] - start_time[r],
     phase_results |-> phase_results[r],
     status |-> IF \E p \in DOMAIN phase_results[r] \ {"trade_agents"} :
                      phase_results[r][p].status = "error"
                THEN "failed" ELSE "completed"]

\* the document handed to scheduler_runs.insert_one
RunDoc(r) ==
    [_id |-> run_id[r],
     started_at |-> start_time[r],
     completed_at |-> end_time[r],
     duration_seconds |-> end_time[r] - start_time[r],
     phase_results |-> phase_results[r],
     status |-> "completed"]

\* insert_one is rejected (DuplicateKeyError) when the _id is taken
IdTaken(id) == \E d \in scheduler_runs : d._id = id

\* instances of the daily_pipeline job the scheduler's executor tracks
SchedInstances ==
    Cardinality({r \in Runs : origin[r] = "scheduled" /\ pc[r] \in InProgress})

\* admission of the manual trigger: create_task, no check at all
TriggerAdmits == TRUE

\* admission of a cron firing: below max_instances
CronAdmits == SchedInstances < max_instances

IdleRuns == {r \in 1..runLimit : pc[r] = "idle"}

\* the environment starts another invocation
MayStart ==
    /\ IdleRuns # {}
    /\ Cardinality({r \in Runs : pc[r] \in InProgress}) < MaxActive

\* the next invocation: invocations are numbered in the order they start
NextRun == CHOOSE r \in IdleRuns : \A s \in IdleRuns : r <= s

\* the environments explored: one invocation with up to MaxFaults failures,
\* or up to MaxRuns invocations with up to MaxOverlapFaults failures
Scenarios == {<<1, MaxFaults>>, <<MaxRuns, MaxOverlapFaults>>}

InitPipeline ==
    /\ clock = 0
    /\ faults = 0
    /\ \E sc \in Scenarios : runLimit = sc[1] /\ faultLimit = sc[2]
    /\ pc = [r \in Runs |-> "idle"]
    /\ origin = [r \in Runs |-> "none"]
    /\ run_id = [r \in Runs |-> 0]
    /\ start_time = [r \in Runs |-> 0]
    /\ end_time = [r \in Runs |-> Unset]
    /\ futures = [r \in Runs |-> [j \in JobIdx |-> "none"]]
    /\ phase_results = [r \in Runs |-> <<>>]
    /\ phaseLog = [r \in Runs |-> <<>>]
    /\ writes = [r \in Runs |-> 0]
    /\ skipped = FALSE
    /\ scheduler_runs = {}

\* the wall clock advances by one second
Tick ==
    /\ clock < MaxClock
    /\ clock' = clock + 1
    /\ UNCHANGED <<faults, runLimit, faultLimit, pc, origin, run_id, start_time, end_time, futures,
                   phase_results, phaseLog, writes, skipped,
                   scheduler_runs>>

\* run_daily_pipeline up to "await asyncio.gather": run_id, start_time, the
\* four jobs handed to _executor
BeginRun(r, from) ==
    /\ pc' = [pc EXCEPT ![r] = "phase1"]
    /\ origin' = [origin EXCEPT ![r] = from]
    /\ run_id' = [run_id EXCEPT ![r] = clock]
    /\ start_time' = [start_time EXCEPT ![r] = clock]
    /\ futures' = [futures EXCEPT ![r] = [j \in JobIdx |-> "queued"]]
    /\ phaseLog' = [phaseLog EXCEPT ![r] = <<"trade_agents">>]
    /\ UNCHANGED <<clock, faults, runLimit, faultLimit, end_time,
                   phase_results, writes, scheduler_runs>>

\* the cron trigger fires and the job is admitted
ScheduledFire ==
    /\ MayStart
    /\ CronAdmits
    /\ BeginRun(NextRun, "scheduled")
    /\ skipped' = FALSE

\* the cron trigger fires while max_instances runs are in progress: the
\* firing is dropped
ScheduledSkip ==
    /\ ~CronAdmits
    /\ skipped' = TRUE
    /\ UNCHANGED <<clock, faults, runLimit, faultLimit, pc, origin, run_id, start_time, end_time,
                   futures, phase_results, phaseLog, writes, scheduler_runs>>

\* POST /trigger: asyncio.get_event_loop().create_task(run_daily_pipeline())
trigger_daily_pipeline ==
    /\ MayStart
    /\ TriggerAdmits
    /\ BeginRun(NextRun, "manual")
    /\ UNCHANGED skipped

\* a worker thread of _executor runs job_fetch_<source>: it returns its
\* success dict, returns the error dict of its except branch, or raises
\* (constructing the agent, or update_status("error") in the except branch)
WorkerRun(r, j, o) ==
    /\ futures[r][j] = "queued"
    /\ faults + Cost(o) <= faultLimit
    /\ faults' = faults + Cost(o)
    /\ futures' = [futures EXCEPT ![r][j] = o]
    /\ UNCHANGED <<clock, runLimit, faultLimit, pc, origin, run_id, start_time, end_time,
                   phase_results, phaseLog, writes, skipped, scheduler_runs>>

\* gather returns: phase_results["trade_agents"] is built and job_fetch_news
\* is awaited
Phase1Join(r) ==
    /\ pc[r] = "phase1"
    /\ GatherReady(r)
    /\ phase_results' = [phase_results EXCEPT
                            ![r] = ("trade_agents" :> TradeEntries(r))]
    /\ pc' = [pc EXCEPT ![r] = "phase2"]
    /\ phaseLog' = [phaseLog EXCEPT ![r] = Append(@, "news_agent")]
    /\ UNCHANGED <<clock, faults, runLimit, faultLimit, origin, run_id, start_time, end_time,
                   futures, writes, skipped, scheduler_runs>>

\* the try/except around one awaited job: the value it returned, or the
\* error entry when it raised
SeqEntry(p, o) ==
    IF o = "raised" THEN ErrorEntry
    ELSE IF p \in {"news_agent", "market_research"} THEN JobDict(SeqSource(p), o)
    ELSE IF p = "reset_counters" THEN [source |-> "none", status |-> "counters_reset"]
    ELSE [source |-> "none", status |-> "success"]

\* outcomes the job of a sequential phase can have: the agent jobs have an
\* except branch of their own; derive, frameworks and reset_counters return
\* or raise
SeqOutcomes(p) ==
    IF p \in {"news_agent", "market_research"} THEN Finished
    ELSE {"success", "raised"}

\* phase n (2..5) ends: its result is recorded and the job of phase n+1 is
\* awaited
SeqPhaseFinish(r, n, o) ==
    /\ n \in 2..5
    /\ pc[r] = "phase" \o ToString(n)
    /\ o \in SeqOutcomes(PhaseOrder[n])
    /\ faults + Cost(o) <= faultLimit
    /\ faults' = faults + Cost(o)
    /\ phase_results' = [phase_results EXCEPT
                            ![r] = @ @@ (PhaseOrder[n] :> SeqEntry(PhaseOrder[n], o))]
    /\ pc' = [pc EXCEPT ![r] = "phase" \o ToString(n + 1)]
    /\ phaseLog' = [phaseLog EXCEPT ![r] = Append(@, PhaseOrder[n + 1])]
    /\ UNCHANGED <<clock, runLimit, faultLimit, origin, run_id, start_time, end_time, futures,
                   writes, skipped, scheduler_runs>>

\* phase 6 ends: result recorded, end_time taken, insert_one awaited
Phase6Finish(r, o) ==
    /\ pc[r] = "phase6"
    /\ o \in SeqOutcomes("reset_counters")
    /\ faults + Cost(o) <= faultLimit
    /\ faults' = faults + Cost(o)
    /\ phase_results' = [phase_results EXCEPT
                            ![r] = @ @@ ("reset_counters" :>
                                            SeqEntry("reset_counters", o))]
    /\ end_time' = [end_time EXCEPT ![r] = clock]
    /\ pc' = [pc EXCEPT ![r] = "store"]
    /\ UNCHANGED <<clock, runLimit, faultLimit, origin, run_id, start_time, futures, phaseLog,
                   writes, skipped, scheduler_runs>>

\* await db.scheduler_runs.insert_one(...): the document is stored and the
\* coroutine returns, or the insert is rejected and the exception leaves
\* run_daily_pipeline; either way the frame and its locals are gone
StoreRun(r) ==
    /\ pc[r] = "store"
    /\ IF IdTaken(run_id[r])
       THEN /\ pc' = [pc EXCEPT ![r] = "raised"]
            /\ UNCHANGED <<scheduler_runs, writes>>
       ELSE /\ pc' = [pc EXCEPT ![r] = "done"]
            /\ scheduler_runs' = scheduler_runs \cup {RunDoc(r)}
            /\ writes' = [writes EXCEPT ![r] = @ + 1]
    /\ futures' = [futures EXCEPT ![r] = [j \in JobIdx |-> "none"]]
    /\ phase_results' = [phase_results EXCEPT ![r] = <<>>]
    /\ phaseLog' = [phaseLog EXCEPT ![r] = <<>>]
    /\ start_time' = [start_time EXCEPT ![r] = 0]
    /\ end_time' = [end_time EXCEPT ![r] = Unset]
    /\ UNCHANGED <<clock, faults, runLimit, faultLimit, origin, run_id,
                   skipped>>

NextPipeline ==
    \/ Tick
    \/ ScheduledFire
    \/ ScheduledSkip
    \/ trigger_daily_pipeline
    \/ \E r \in Runs, j \in JobIdx, o \in Finished : WorkerRun(r, j, o)
    \/ \E r \in Runs : Phase1Join(r)
    \/ \E r \in Runs, n \in 2..5, o \in Finished : SeqPhaseFinish(r, n, o)
    \/ \E r \in Runs, o \in Finished : Phase6Finish(r, o)
    \/ \E r \in Runs : StoreRun(r)

\* ------------------------------------------------------------------------
\* Trade records: ComtradeAgent._parse_and_store, EurostatAgent._parse_jsonstat
\* ------------------------------------------------------------------------
Threads == 1..MaxThreads

\* a field a document does not have (numeric fields), None in a response
None == 0 - 1

\* a field a document does not have (string fields)
NoStr == "<absent>"

\* a value of a response that float() rejects with ValueError
Malformed == 0 - 2

\* the fields of the unique index uq_trade_data_composite
KeyFields == {"source", "reporter_code", "partner_code", "hs_code", "flow",
              "period_date", "frequency"}

MOROCCO_M49 == "504"

MOROCCO_ISO2 == "MA"

\* int() of a string of decimal digits, the string given as its digits
RECURSIVE ToInt(_)
ToInt(ds) == IF ds = <<>> THEN 0 ELSE 10 * ToInt(SubSeq(ds, 1, Len(ds) - 1)) + ds[Len(ds)]

\* date(y, m, 1) raises ValueError for a month outside 1..12
ValidDate(y, m) == y \in 1..9999 /\ m \in 1..12

\* ComtradeAgent._parse_period: "YYYY" or "YYYYMM", anything else is None
ComtradeParsePeriod(ds) ==
    IF Len(ds) = 4 THEN
        IF ValidDate(ToInt(ds), 1) THEN <<ToInt(ds), 1, 1>> ELSE <<>>
    ELSE IF Len(ds) = 6 THEN
        IF ValidDate(ToInt(SubSeq(ds, 1, 4)), ToInt(SubSeq(ds, 5, 6)))
        THEN <<ToInt(SubSeq(ds, 1, 4)), ToInt(SubSeq(ds, 5, 6)), 1>> ELSE <<>>
    ELSE <<>>

\* EurostatAgent._parse_period for a time code without "M" or "Q": the year
EurostatParsePeriod(ds) ==
    IF ds # <<>> /\ ValidDate(ToInt(ds), 1) THEN <<ToInt(ds), 1, 1>> ELSE <<>>

\* flowCode "M" / "X" -> flow, anything else skips the record
ComtradeFlow(code) ==
    CASE code = "M" -> "import"
      [] code = "X" -> "export"
      [] OTHER -> NoStr

\* HS_CHAPTER_DESCRIPTIONS_FR.get(chapter, rec.get("cmdDescE", ""))
HsDescription(chapter, cmdDescE) ==
    CASE chapter = "61" -> "Vetements et accessoires en bonneterie"
      [] chapter = "62" -> "Vetements et accessoires autres qu'en bonneterie"
      [] OTHER -> cmdDescE

\* records a Comtrade response can hold
ComtradeRecords ==
    {rec \in [flowCode : {"M", "X", "FM"},
              cmdCode : {"61"},
              period : {<<2, 0, 2, 5>>, <<2, 0, 2, 5, 1, 3>>},
              reporterCode : {MOROCCO_M49},
              partnerCode : {"0"},
              reporterDesc : {"Morocco"},
              partnerDesc : {"World"},
              cmdDescE : {"Apparel, knitted"},
              primaryValue : {1000, 1200, Malformed},
              netWgt : {None, 50},
              qty : {None, 7}] :
        <<rec.primaryValue, rec.netWgt, rec.qty>> \in
            {<<1000, None, None>>, <<1200, 50, None>>, <<1000, None, 7>>,
             <<Malformed, None, None>>}}

\* filt of ComtradeAgent._parse_and_store
ComtradeFilt(rec) ==
    [source |-> "comtrade",
     reporter_code |-> rec.reporterCode,
     partner_code |-> rec.partnerCode,
     hs_code |-> rec.cmdCode,
     flow |-> ComtradeFlow(rec.flowCode),
     period_date |-> ComtradeParsePeriod(rec.period),
     frequency |-> "A"]

\* a measure enters upd only when the response gives it: float(v)
Measure(name, v) == IF v # None THEN name :> v ELSE <<>>

\* upd of ComtradeAgent._parse_and_store
ComtradeUpd(rec, now) ==
    [reporter_name |-> rec.reporterDesc,
     partner_name |-> rec.partnerDesc,
     hs_description |-> HsDescription(rec.cmdCode, rec.cmdDescE),
     updated_at |-> now]
    @@ Measure("value_usd", rec.primaryValue)
    @@ Measure("weight_kg", rec.netWgt)
    @@ Measure("quantity", rec.qty)

\* the JSON-stat hypercube of ext_lt_maineu: data["id"], data["size"] and
\* the category index of each dimension (position -> code)
dim_ids == <<"indic_et", "sitc06", "time">>

dim_sizes == <<3, 1, 2>>

dim_code_by_pos ==
    [indic_et |-> <<"MIO_EXP_VAL", "MIO_IMP_VAL", "MIO_BAL_VAL">>,
     sitc06 |-> <<"SITC6_8">>,
     time |-> << <<2, 0, 2, 5>>, <<>> >>]

\* number of cells of the hypercube
RECURSIVE Product(_)
Product(sz) == IF sz = <<>> THEN 1 ELSE sz[1] * Product(Tail(sz))

FlatIndices == 0..(Product(dim_sizes) - 1)

\* values a cell of the hypercube can hold (MIO EUR)
CellValues == {None, 1, 2, Malformed}

\* the coordinate of dimension i of a flat index: the loop
\* "for i in range(len(dim_ids) - 1, -1, -1)" with remaining % size, // size
RECURSIVE Remaining(_, _)
Remaining(flat, i) ==
    IF i = Len(dim_ids) THEN flat ELSE Remaining(flat, i + 1) \div dim_sizes[i + 1]

Coord(flat, i) == Remaining(flat, i) % dim_sizes[i]

DimPos(name) == CHOOSE i \in 1..Len(dim_ids) : dim_ids[i] = name

\* code of dimension "name" at the cell (positions are 0-based in JSON-stat)
CodeAt(flat, name) == dim_code_by_pos[name][Coord(flat, DimPos(name)) + 1]

\* _INDICATOR_MAP.get(indic)
EurostatFlow(indic) ==
    CASE indic = "MIO_EXP_VAL" -> "export"
      [] indic = "MIO_IMP_VAL" -> "import"
      [] OTHER -> NoStr

\* _SITC_LABEL_FR.get(sitc, sitc)
SitcLabel(sitc) ==
    CASE sitc = "SITC6_8" -> "Autres articles manufactures (incl. textile)"
      [] OTHER -> sitc

\* filt of EurostatAgent._parse_jsonstat
EurostatFilt(flat, reporter_code) ==
    [source |-> "eurostat",
     reporter_code |-> reporter_code,
     partner_code |-> MOROCCO_ISO2,
     hs_code |-> CodeAt(flat, "sitc06"),
     flow |-> EurostatFlow(CodeAt(flat, "indic_et")),
     period_date |-> EurostatParsePeriod(CodeAt(flat, "time")),
     frequency |-> "A"]

\* upd of EurostatAgent._parse_jsonstat: value_eur = float(value) * 1_000_000
EurostatUpd(flat, value, reporter_name, now) ==
    [reporter_name |-> reporter_name,
     partner_name |-> "Maroc",
     hs_description |-> SitcLabel(CodeAt(flat, "sitc06")),
     value_eur |-> value * 1000000,
     updated_at |-> now]

\* a document matches filt when it agrees on every field of filt
Matches(d, filt) == \A f \in DOMAIN filt : d[f] = filt[f]

\* a document holding no field
EmptyDoc ==
    [source |-> NoStr, reporter_code |-> NoStr,
     partner_code |-> NoStr, hs_code |-> NoStr, flow |-> NoStr,
     period_date |-> <<>>, frequency |-> NoStr, reporter_name |-> NoStr,
     partner_name |-> NoStr, hs_description |-> NoStr, value_usd |-> None,
     value_eur |-> None, weight_kg |-> None, quantity |-> None,
     updated_at |-> None, created_at |-> None]

\* (variant) the document is replaced by the supplied fields
ReplaceFields(d, upd) ==
    [f \in DOMAIN d |->
        IF f \in DOMAIN upd THEN upd[f]
        ELSE IF f \in KeyFields \cup {"created_at"} THEN d[f]
        ELSE EmptyDoc[f]]

\* $set: the supplied fields are overwritten, every other field is kept
SetFields(d, upd) == [f \in DOMAIN d |-> IF f \in DOMAIN upd THEN upd[f] ELSE d[f]]

\* the documents of a collection that match filt
Find(docs, filt) == {d \in BagToSet(docs) : Matches(d, filt)}

\* insert_one
Insert(docs, d) == docs (+) SetToBag({d})

\* (variant) every call inserts a new document
UpsertInsertOnly(docs, filt, upd, now) ==
    Insert(docs, SetFields(EmptyDoc, filt @@ upd @@ ("created_at" :> now)))

\* (variant) created_at is part of $set: every upsert stamps it
UpsertStampsCreation(docs, filt, upd, now) ==
    IF Find(docs, filt) # {}
    THEN LET d == CHOOSE x \in Find(docs, filt) : TRUE
         IN Insert(docs (-) SetToBag({d}),
                   SetFields(d, upd @@ ("created_at" :> now)))
    ELSE Insert(docs, SetFields(EmptyDoc, filt @@ upd @@ ("created_at" :> now)))

\* trade_data.update_one(filt, {"$set": upd, "$setOnInsert": {"created_at":
\* now}}, upsert=True): one matching document is updated, or a new document
\* made of filt, upd and created_at is inserted
Upsert(docs, filt, upd, now) ==
    IF Find(docs, filt) # {}
    THEN LET d == CHOOSE x \in Find(docs, filt) : TRUE
         IN Insert(docs (-) SetToBag({d}), SetFields(d, upd))
    ELSE Insert(docs, SetFields(EmptyDoc, filt @@ upd @@ ("created_at" :> now)))

\* before any update_one call
NoOp == [filt |-> <<>>, upd |-> <<>>]

IdleThread ==
    [agent |-> "idle", left |-> 0, count |-> 0, done |-> {}, failed |-> 0,
     raised |-> FALSE, lost |-> 0]

InitStore ==
    /\ trade_data = EmptyBag
    /\ source \in {"comtrade", "eurostat"}
    /\ thread = [t \in Threads |-> IdleThread]
    /\ fetches = 0
    /\ lastOp = NoOp
    /\ seenKeys = {}

\* the wall clock advances by one second
StoreTick ==
    /\ clock < MaxClock
    /\ clock' = clock + 1
    /\ UNCHANGED svars

\* a response with n records reaches _parse_and_store / _parse_jsonstat of an
\* agent thread (the first idle one)
StartParse(t, a, n) ==
    /\ a = source
    /\ thread[t].agent = "idle"
    /\ \A u \in 1..(t - 1) : thread[u].agent # "idle"
    /\ fetches < MaxFetches
    /\ fetches' = fetches + 1
    /\ thread' = [thread EXCEPT ![t] = [IdleThread EXCEPT !.agent = a,
                                                           !.left = n]]
    /\ UNCHANGED <<clock, trade_data, source, lastOp, seenKeys>>

\* update_one on trade_data together with the bookkeeping of the model
Store(t, filt, upd) ==
    /\ trade_data' = Upsert(trade_data, filt, upd, clock)
    /\ lastOp' = [filt |-> filt, upd |-> upd]
    /\ seenKeys' = seenKeys \cup {filt}

Skip == UNCHANGED <<trade_data, lastOp, seenKeys>>

\* float(primary_value) raises inside the try of the loop body
ComtradeRaises(rec) == rec.primaryValue = Malformed

\* the cell is one that _parse_jsonstat skips with "continue"
EurostatSkips(flat, value) ==
    \/ value = None
    \/ EurostatFlow(CodeAt(flat, "indic_et")) = NoStr
    \/ EurostatParsePeriod(CodeAt(flat, "time")) = <<>>

\* float(value) raises; the loop body of _parse_jsonstat has no try
EurostatRaises(flat, value) ==
    /\ value = Malformed
    /\ EurostatFlow(CodeAt(flat, "indic_et")) # NoStr
    /\ EurostatParsePeriod(CodeAt(flat, "time")) # <<>>

\* one iteration of "for rec in records" of ComtradeAgent._parse_and_store
ComtradeRecord(t, rec) ==
    /\ thread[t].agent = "comtrade"
    /\ thread[t].left > 0
    /\ IF ComtradeFlow(rec.flowCode) = NoStr \/ ComtradeParsePeriod(rec.period) = <<>>
       THEN /\ Skip
            /\ thread' = [thread EXCEPT ![t].left = @ - 1]
       ELSE IF ComtradeRaises(rec)
       THEN /\ Skip
            /\ thread' = [thread EXCEPT ![t].left = @ - 1, ![t].failed = @ + 1]
       ELSE /\ Store(t, ComtradeFilt(rec), ComtradeUpd(rec, clock))
            /\ thread' = [thread EXCEPT ![t].left = @ - 1, ![t].count = @ + 1]
    /\ UNCHANGED <<clock, source, fetches>>

\* one iteration of "for flat_str, value in values.items()" of
\* EurostatAgent._parse_jsonstat (reporter EU27, "Union Europeenne")
EurostatCell(t, flat, value) ==
    /\ thread[t].agent = "eurostat"
    /\ thread[t].left > 0
    /\ flat \notin thread[t].done
    /\ ~thread[t].raised
    /\ IF EurostatSkips(flat, value)
       THEN /\ Skip
            /\ thread' = [thread EXCEPT ![t].left = @ - 1,
                                        ![t].done = @ \cup {flat}]
       ELSE IF EurostatRaises(flat, value)
       THEN /\ Skip
            /\ thread' = [thread EXCEPT ![t].left = @ - 1,
                                        ![t].done = @ \cup {flat},
                                        ![t].failed = @ + 1,
                                        ![t].raised = TRUE]
       ELSE /\ Store(t, EurostatFilt(flat, "EU27"),
                     EurostatUpd(flat, value, "Union Europeenne", clock))
            /\ thread' = [thread EXCEPT ![t].left = @ - 1, ![t].count = @ + 1,
                                        ![t].done = @ \cup {flat}]
    /\ UNCHANGED <<clock, source, fetches>>

\* a cell of the response that the loop of _parse_jsonstat never reaches,
\* because the exception of an earlier cell has left the method
EurostatUnreached(t, flat, value) ==
    /\ thread[t].agent = "eurostat"
    /\ thread[t].left > 0
    /\ flat \notin thread[t].done
    /\ thread[t].raised
    /\ Skip
    /\ thread' = [thread EXCEPT
          ![t].left = @ - 1,
          ![t].done = @ \cup {flat},
          ![t].lost = IF EurostatSkips(flat, value) \/ EurostatRaises(flat, value)
                      THEN @ ELSE @ + 1]
    /\ UNCHANGED <<clock, source, fetches>>

\* the loop is over ("return count"), or the exception has left the method
FinishParse(t) ==
    /\ thread[t].agent # "idle"
    /\ thread[t].left = 0
    /\ thread' = [thread EXCEPT ![t] = IdleThread]
    /\ UNCHANGED <<clock, trade_data, source, fetches, lastOp, seenKeys>>

NextStore ==
    /\ \/ StoreTick
       \/ \E t \in Threads, a \in {"comtrade", "eurostat"}, n \in 1..MaxBatch :
             StartParse(t, a, n)
       \/ \E t \in Threads, rec \in ComtradeRecords : ComtradeRecord(t, rec)
       \/ \E t \in Threads, flat \in FlatIndices, value \in CellValues :
             EurostatCell(t, flat, value)
       \/ \E t \in Threads, flat \in FlatIndices, value \in CellValues :
             EurostatUnreached(t, flat, value)
       \/ \E t \in Threads : FinishParse(t)
    /\ UNCHANGED rvars

\* ------------------------------------------------------------------------
\* The retrying fetcher: BaseAgent.safe_request
\* ------------------------------------------------------------------------
\* URLs the agents pass to safe_request
Urls == {"_ESTAT_BASE/ext_lt_maineu", "_COMTRADE_BASE"}

\* status codes the upstream answers with
StatusCodes == {200, 404, 429, 500, 503}

\* entry of the history for an attempt that got no response at all
\* (httpx.RequestError: connection failure or timeout)
NoResponse == 0

\* before safe_request is called
NoCall == [url |-> NoStr, max_retries |-> 0]

\* no exception has left safe_request
NoError == [type |-> NoStr, url |-> NoStr, retries |-> 0]

\* an exception of httpx leaving safe_request: it carries no text of
\* safe_request
HttpxError(type) == [type |-> type, url |-> NoStr, retries |-> 0]

\* RuntimeError(f"Failed after {max_retries} retries: {url}")
RetriesExhausted(c) ==
    [type |-> "RuntimeError", url |-> c.url, retries |-> c.max_retries]

\* 2 ** n
RECURSIVE Pow2(_)
Pow2(n) == IF n = 0 THEN 1 ELSE 2 * Pow2(n - 1)

\* (variant) a rate-limited attempt waits as a server error does
RateLimitWaitAsServer(a) == Pow2(a) * 5

\* wait after HTTP 429 on attempt a (0-based)
RateLimitWait(a) == Pow2(a + 1) * 10

\* wait after HTTP >= 500 or a request error on attempt a (0-based)
RetryWait(a) == Pow2(a) * 5

\* (variant) a request error is retried on every attempt
AttemptsRemainAlways(a, m) == TRUE

\* "if attempt < max_retries - 1"
AttemptsRemain(a, m) == a < m - 1

InitFetch ==
    /\ call = NoCall
    /\ attempt = 0
    /\ responses = <<>>
    /\ sleeps = <<>>
    /\ result = "none"
    /\ error = NoError

\* safe_request(url, max_retries=m) is entered
Call(u, m) ==
    /\ call = NoCall
    /\ call' = [url |-> u, max_retries |-> m]
    /\ UNCHANGED <<attempt, responses, sleeps, result, error>>

\* the loop goes on to its next iteration after time.sleep(wait)
SleepAndRetry(wait) ==
    /\ sleeps' = Append(sleeps, wait)
    /\ attempt' = attempt + 1
    /\ UNCHANGED <<result, error>>

\* (variant) the failed attempt is waited out and retried like a server error
RetryInstead(type) == SleepAndRetry(RetryWait(attempt))

\* the exception of httpx leaves safe_request ("raise")
Reraise(type) ==
    /\ result' = "raised"
    /\ error' = HttpxError(type)
    /\ UNCHANGED <<attempt, sleeps>>

\* (variant) the loop runs for attempt = 0..max_retries
InLoopInclusive ==
    call # NoCall /\ result = "none" /\ attempt <= call.max_retries

\* "for attempt in range(max_retries)"
InLoop == call # NoCall /\ result = "none" /\ attempt < call.max_retries

\* one iteration of the loop in which client.get returns a response
GetResponse(status) ==
    /\ InLoop
    /\ responses' = Append(responses, status)
    /\ IF status < 400
       THEN /\ result' = "returned"
            /\ UNCHANGED <<attempt, sleeps, error>>
       ELSE IF status = 429 THEN SleepAndRetry(RateLimitWait(attempt))
       ELSE IF status >= 500 THEN SleepAndRetry(RetryWait(attempt))
       ELSE Reraise("HTTPStatusError")
    /\ UNCHANGED call

\* one iteration of the loop in which client.get raises httpx.RequestError
GetRequestError ==
    /\ InLoop
    /\ responses' = Append(responses, NoResponse)
    /\ IF AttemptsRemain(attempt, call.max_retries)
       THEN SleepAndRetry(RetryWait(attempt))
       ELSE Reraise("RequestError")
    /\ UNCHANGED call

\* the loop is over without a return: the raise after it
Exhausted ==
    /\ call # NoCall
    /\ result = "none"
    /\ attempt = call.max_retries
    /\ result' = "raised"
    /\ error' = RetriesExhausted(call)
    /\ UNCHANGED <<call, attempt, responses, sleeps>>

NextFetch ==
    /\ \/ \E u \in Urls, m \in 0..MaxRetries : Call(u, m)
       \/ \E status \in StatusCodes : GetResponse(status)
       \/ GetRequestError
       \/ Exhausted
    /\ UNCHANGED <<pvars, svars>>

\* ------------------------------------------------------------------------
\* The status tracker: BaseAgent.update_status, increment_api_calls,
\* get_api_calls_today, and job_reset_daily_counters
\* ------------------------------------------------------------------------
SOURCE_EUROSTAT == "eurostat_comext"

SOURCE_COMTRADE == "un_comtrade"

SOURCE_FEDERAL_REGISTER == "federal_register"

SOURCE_OTEXA == "otexa_tradegov"

Sources == {SOURCE_EUROSTAT, SOURCE_COMTRADE, SOURCE_FEDERAL_REGISTER,
            SOURCE_OTEXA}

\* a field holding null (last_error_message after update_status("active"))
NullStr == "<null>"

\* the rows of a source
RowsOf(rows, src) == {r \in rows : r.source_name = src}

\* (variant) the error message is left as it was when the status is active
StatusFieldsKeepMessage(status, error_msg, now) ==
    [status |-> status, updated_at |-> now]
    @@ (IF status = "active"
        THEN [last_successful_fetch |-> now]
        ELSE IF error_msg # NoStr THEN [last_error_message |-> error_msg]
        ELSE <<>>)

\* update_fields of update_status; error_msg = NoStr stands for None or ""
StatusFields(status, error_msg, now) ==
    [status |-> status, updated_at |-> now]
    @@ (IF status = "active"
        THEN [last_successful_fetch |-> now, last_error_message |-> NullStr]
        ELSE IF error_msg # NoStr THEN [last_error_message |-> error_msg]
        ELSE <<>>)

\* a row holding no field
EmptyRow ==
    [source_name |-> NoStr, status |-> NoStr, updated_at |-> None,
     last_successful_fetch |-> None, last_error_message |-> NoStr,
     records_fetched_today |-> 0, api_calls_today |-> None]

\* update_one({source_name}, {$set: update_fields, $inc:
\* {records_fetched_today: records}, $setOnInsert: {source_name,
\* api_calls_today: 0}}, upsert=True)
UpdateStatus(rows, src, status, error_msg, records, now) ==
    LET fields == StatusFields(status, error_msg, now)
        inc(r) == [r EXCEPT !.records_fetched_today = @ + records]
    IN IF RowsOf(rows, src) # {}
       THEN LET r == CHOOSE x \in RowsOf(rows, src) : TRUE
            IN (rows \ {r}) \cup {inc(SetFields(r, fields))}
       ELSE rows \cup
            {inc(SetFields(EmptyRow, fields @@ [source_name |-> src,
                                                 api_calls_today |-> 0]))}

\* (variant) increment_api_calls creates the row of an absent source
IncrementApiCallsUpsert(rows, src, count, now) ==
    IF RowsOf(rows, src) # {}
    THEN LET r == CHOOSE x \in RowsOf(rows, src) : TRUE
         IN (rows \ {r}) \cup {[r EXCEPT !.api_calls_today = @ + count,
                                          !.updated_at = now]}
    ELSE rows \cup {[EmptyRow EXCEPT !.source_name = src,
                                      !.api_calls_today = count,
                                      !.updated_at = now]}

\* (variant) increment_api_calls writes its count over the counter
IncrementApiCallsSet(rows, src, count, now) ==
    {IF r.source_name = src
     THEN [r EXCEPT !.api_calls_today = count, !.updated_at = now]
     ELSE r : r \in rows}

\* update_one({source_name}, {$inc: {api_calls_today: count}, $set:
\* {updated_at}}), without upsert: no matching row, no change
IncrementApiCalls(rows, src, count, now) ==
    IF RowsOf(rows, src) # {}
    THEN LET r == CHOOSE x \in RowsOf(rows, src) : TRUE
         IN (rows \ {r}) \cup {[r EXCEPT !.api_calls_today = @ + count,
                                          !.updated_at = now]}
    ELSE rows

\* doc.get("api_calls_today", 0) if doc else 0
GetApiCallsToday(rows, src) ==
    IF RowsOf(rows, src) # {}
    THEN LET r == CHOOSE x \in RowsOf(rows, src) : TRUE
         IN IF r.api_calls_today = None THEN 0 ELSE r.api_calls_today
    ELSE 0

\* (variant) the reset also clears the error message of every row
ResetRowsAndMessage(rows) ==
    {[r EXCEPT !.records_fetched_today = 0, !.api_calls_today = 0,
               !.last_error_message = NullStr] : r \in rows}

\* update_many({}, {$set: {records_fetched_today: 0, api_calls_today: 0}})
ResetRows(rows) ==
    {[r EXCEPT !.records_fetched_today = 0, !.api_calls_today = 0] : r \in rows}

\* ------------------------------------------------------------------------
\* The agent jobs: job_fetch_<source> and fetch_data of the agents
\* ------------------------------------------------------------------------
\* (variant) fetch_data of Comtrade makes a third counted call
SubFetchesWithThird(a) ==
    IF a = SOURCE_EUROSTAT THEN 1 ELSE IF a = SOURCE_COMTRADE THEN 3 ELSE 2

\* sub-fetches of fetch_data: Eurostat has one, the other agents two
SubFetches(a) == IF a = SOURCE_EUROSTAT THEN 1 ELSE 2

\* agents whose upstream calls need a credential of settings
NeedsKey(a) == a \in {SOURCE_COMTRADE, SOURCE_OTEXA}

\* how a sub-fetch built on safe_request ends: records stored, HTTP 403
\* re-raised, retries exhausted, or a body that resp.json() rejects
FetcherOutcomes == {"ok", "client_error", "exhausted", "bad_body"}

\* how _search_and_store of OtexaAgent ends with a key configured
SearchOutcomes == {"ok", "failed", "bad_json"}

\* how chat.completions.create ends when the client was built with the empty
\* key: the request is refused before it is sent, or sent and refused
UnkeyedOutcomes == {"rejected_locally", "rejected_upstream"}

\* outcomes after which increment_api_calls is reached
Counted == {"ok", "bad_body", "bad_json"}

\* outcomes in which a request went upstream
WentUpstream == (FetcherOutcomes \cup SearchOutcomes \cup UnkeyedOutcomes)
                    \ {"rejected_locally"}

NoJob ==
    [agent |-> NoStr, keyed |-> FALSE, pc |-> "idle", sub |-> 0,
     outcomes |-> <<>>, counts |-> <<>>, total |-> 0, calls_at_start |-> 0,
     upstream |-> 0]

NoTrackerCall ==
    [op |-> NoStr, src |-> NoStr, status |-> NoStr, error_msg |-> NoStr,
     n |-> 0, now |-> None, before |-> {}]

InitAgent ==
    /\ data_source_status = {}
    /\ job = NoJob
    /\ jobs = 0
    /\ issued = [src \in Sources |-> 0]
    /\ ops = 0
    /\ lastCall = NoTrackerCall

\* (variant) the gate closes at the hard limit of 500 calls
QuotaReachedAtLimit(calls) == calls >= 500

\* "if calls >= 480"
QuotaReached(calls) == calls >= QUOTA_GATE

\* (variant) the first failed sub-fetch ends fetch_data
ContinuesOnlyAfterSuccess(o) == o = "ok"

\* each sub-fetch sits in its own try/except Exception
ContinuesAfter(o) == TRUE

\* the wall clock advances by one second
AgentTick ==
    /\ clock < MaxClock
    /\ clock' = clock + 1
    /\ UNCHANGED <<rvars, svars, fvars, avars>>

\* the jobs of the day so far left the Comtrade row with c calls counted
EarlierFetches(c) ==
    /\ jobs = 0
    /\ data_source_status = {}
    /\ data_source_status' =
          {[EmptyRow EXCEPT !.source_name = SOURCE_COMTRADE,
                            !.status = "active",
                            !.updated_at = clock,
                            !.last_successful_fetch = clock,
                            !.last_error_message = NullStr,
                            !.api_calls_today = c]}
    /\ issued' = [issued EXCEPT ![SOURCE_COMTRADE] = c]
    /\ UNCHANGED <<pvars, svars, fvars, job, jobs, ops, lastCall>>

\* job_fetch_<source> up to the first sub-fetch: the agent is constructed
\* and fetch_data passes its gates (ComtradeAgent: key, then quota)
StartJob(a, keyed, ctor) ==
    /\ job.pc \in {"idle", "done", "ctor_raised"}
    /\ jobs < MaxJobs
    /\ ~NeedsKey(a) => keyed
    /\ ctor = "raises" => (a = SOURCE_OTEXA /\ ~keyed)
    /\ jobs' = jobs + 1
    /\ LET calls == GetApiCallsToday(data_source_status, a)
           j == [NoJob EXCEPT !.agent = a, !.keyed = keyed,
                              !.calls_at_start = calls]
       IN job' =
            IF ctor = "raises" THEN [j EXCEPT !.pc = "ctor_raised"]
            ELSE IF a = SOURCE_COMTRADE /\ (~keyed \/ QuotaReached(calls))
            THEN [j EXCEPT !.pc = "status"]
            ELSE [j EXCEPT !.pc = "sub", !.sub = 1]
    /\ UNCHANGED <<pvars, svars, fvars, data_source_status, issued, ops,
                   lastCall>>

\* the job after sub-fetch number job.sub ended with outcome o and n records
AfterSubFetch(o, n) ==
    [job EXCEPT !.outcomes = Append(@, o),
                !.counts = Append(@, n),
                !.total = IF o = "ok" THEN @ + n ELSE @,
                !.upstream = IF o \in WentUpstream THEN @ + 1 ELSE @,
                !.sub = IF job.sub < SubFetches(job.agent) /\ ContinuesAfter(o)
                        THEN @ + 1 ELSE @,
                !.pc = IF job.sub < SubFetches(job.agent) /\ ContinuesAfter(o)
                       THEN "sub"
                       ELSE IF ContinuesAfter(o) THEN "status" ELSE "raised"]

\* what one sub-fetch does to the status rows and to the count of calls
SubFetchEffect(o, n) ==
    /\ n > 0 => o = "ok"
    /\ job' = AfterSubFetch(o, n)
    /\ issued' = [issued EXCEPT ![job.agent] = @ + 1]
    /\ data_source_status' =
          IF o \in Counted
          THEN IncrementApiCalls(data_source_status, job.agent, 1, clock)
          ELSE data_source_status
    /\ UNCHANGED <<pvars, svars, fvars, jobs, ops, lastCall>>

\* one sub-fetch of ComtradeAgent, EurostatAgent or FederalRegisterAgent:
\* safe_request, increment_api_calls, parse and store
SubFetch(o, n) ==
    /\ job.pc = "sub"
    /\ job.agent # SOURCE_OTEXA
    /\ o \in FetcherOutcomes
    /\ SubFetchEffect(o, n)

\* one sub-fetch of OtexaAgent: _search_and_store
SearchAndStore(o, n) ==
    /\ job.pc = "sub"
    /\ job.agent = SOURCE_OTEXA
    /\ o \in (IF job.keyed THEN SearchOutcomes ELSE UnkeyedOutcomes)
    /\ SubFetchEffect(o, n)

\* fetch_data has returned: update_status("active", records=count) and the
\* success dict
FinishJob ==
    /\ job.pc = "status"
    /\ data_source_status' =
          UpdateStatus(data_source_status, job.agent, "active", NoStr,
                       job.total, clock)
    /\ job' = [job EXCEPT !.pc = "done"]
    /\ UNCHANGED <<pvars, svars, fvars, jobs, issued, ops, lastCall>>

\* job_reset_daily_counters, run by phase 6 when no agent job is running
ResetCounters ==
    /\ job.pc \in {"idle", "done", "ctor_raised"}
    /\ \/ ResetRows(data_source_status) # data_source_status
       \/ \E src \in Sources : issued[src] # 0
    /\ data_source_status' = ResetRows(data_source_status)
    /\ issued' = [src \in Sources |-> 0]
    /\ UNCHANGED <<pvars, svars, fvars, job, jobs, ops, lastCall>>

NextAgent ==
    \/ AgentTick
    \/ \E c \in (QUOTA_GATE - 2)..(QUOTA_GATE + 1) : EarlierFetches(c)
    \/ \E a \in Sources, keyed \in BOOLEAN, ctor \in {"ok", "raises"} :
          StartJob(a, keyed, ctor)
    \/ \E o \in FetcherOutcomes, n \in 0..MaxRecords : SubFetch(o, n)
    \/ \E o \in SearchOutcomes \cup UnkeyedOutcomes, n \in 0..MaxRecords :
          SearchAndStore(o, n)
    \/ FinishJob
    \/ ResetCounters

\* ------------------------------------------------------------------------
\* The status tracker called directly, by any caller and in any order
\* ------------------------------------------------------------------------
\* the wall clock advances by one second
TrackerTick ==
    /\ clock < MaxClock
    /\ clock' = clock + 1
    /\ UNCHANGED <<rvars, svars, fvars, avars>>

\* what the tracker operations leave alone
TrackerFrame ==
    /\ ops < MaxOps
    /\ ops' = ops + 1
    /\ UNCHANGED <<pvars, svars, fvars, job, jobs, issued>>

\* agent.update_status(status, error_msg, records) of the agent of src
update_status(src, status, error_msg, records) ==
    /\ TrackerFrame
    /\ data_source_status' =
          UpdateStatus(data_source_status, src, status, error_msg, records,
                       clock)
    /\ lastCall' = [op |-> "update_status", src |-> src, status |-> status,
                    error_msg |-> error_msg, n |-> records, now |-> clock,
                    before |-> data_source_status]

\* agent.increment_api_calls(count) of the agent of src
increment_api_calls(src, count) ==
    /\ TrackerFrame
    /\ data_source_status' =
          IncrementApiCalls(data_source_status, src, count, clock)
    /\ lastCall' = [op |-> "increment_api_calls", src |-> src,
                    status |-> NoStr, error_msg |-> NoStr, n |-> count,
                    now |-> clock, before |-> data_source_status]

\* job_reset_daily_counters (and reset_daily_counters of data_tasks)
reset_daily_counters ==
    /\ TrackerFrame
    /\ data_source_status' = ResetRows(data_source_status)
    /\ lastCall' = [op |-> "reset_daily_counters", src |-> NoStr,
                    status |-> NoStr, error_msg |-> NoStr, n |-> 0,
                    now |-> clock, before |-> data_source_status]

NextTracker ==
    \/ TrackerTick
    \/ reset_daily_counters
    \/ \E src \in {SOURCE_EUROSTAT, SOURCE_COMTRADE},
          status \in {"active", "error"},
          error_msg \in {NoStr, "HTTP 403"},
          records \in {0, MaxRecords} :
          update_status(src, status, error_msg, records)
    \/ \E src \in {SOURCE_EUROSTAT, SOURCE_COMTRADE}, count \in 1..2 :
          increment_api_calls(src, count)

\* ------------------------------------------------------------------------
\* The AI-search agents: GeneralWatcher.fetch_data and
\* MarketResearchAgent._ai_search
\* ------------------------------------------------------------------------
SearchAgents == {"GeneralWatcher", "MarketResearchAgent"}

Queries == 1..MaxQueries

\* an engine call that was not made, and how a call that was made ends
EngineOutcomes == {"ok", "failed"}

NotCalled == "not_called"

NoSearch ==
    [agent |-> NoStr, openai |-> FALSE, gemini |-> FALSE, pc |-> "idle",
     q |-> 0,
     a |-> [i \in Queries |-> NotCalled],
     b |-> [i \in Queries |-> NotCalled],
     results |-> [i \in Queries |-> 0]]

InitSearch == search = NoSearch

\* results a query yields from an engine call that ended with outcome o
Yield(o) == IF o = "ok" THEN 1 ELSE 0

\* the agent is constructed (self._openai, self._gemini_key) and fetch_data
\* is entered
StartSearch(agent, openai, gemini) ==
    /\ search.pc = "idle"
    /\ search' = [NoSearch EXCEPT
          !.agent = agent, !.openai = openai, !.gemini = gemini, !.q = 1,
          !.pc = IF agent = "MarketResearchAgent" THEN "ai_search"
                 ELSE IF openai THEN "openai"
                 ELSE IF gemini THEN "gemini" ELSE "done"]

\* GeneralWatcher: one iteration of the loop over _SEARCH_QUERIES under
\* "if self._openai"
OpenAISearch(o) ==
    /\ search.agent = "GeneralWatcher"
    /\ search.pc = "openai"
    /\ search' = [search EXCEPT
          !.a[search.q] = o,
          !.results[search.q] = @ + Yield(o),
          !.q = IF search.q < MaxQueries THEN @ + 1 ELSE 1,
          !.pc = IF search.q < MaxQueries THEN "openai"
                 ELSE IF search.gemini THEN "gemini" ELSE "done"]

\* GeneralWatcher: one iteration of the loop over _SEARCH_QUERIES under
\* "if self._gemini_key"
GeminiSearch(o) ==
    /\ search.agent = "GeneralWatcher"
    /\ search.pc = "gemini"
    /\ search' = [search EXCEPT
          !.b[search.q] = o,
          !.results[search.q] = @ + Yield(o),
          !.q = IF search.q < MaxQueries THEN @ + 1 ELSE @,
          !.pc = IF search.q < MaxQueries THEN "gemini" ELSE "done"]

\* _ai_search reaches the Gemini branch only when OpenAI did not return
FallsBack(oa) == oa # "ok"

\* MarketResearchAgent: _ai_search for one query; oa and ob are how the
\* OpenAI and the Gemini call end if they are made
ai_search(oa, ob) ==
    /\ search.agent = "MarketResearchAgent"
    /\ search.pc = "ai_search"
    /\ LET ea == IF search.openai THEN oa ELSE NotCalled
           eb == IF FallsBack(ea) /\ search.gemini THEN ob ELSE NotCalled
       IN /\ search.openai \/ oa = "failed"
          /\ eb = NotCalled => ob = "failed"
          /\ search' = [search EXCEPT
                !.a[search.q] = ea,
                !.b[search.q] = eb,
                !.results[search.q] = IF ea = "ok" THEN Yield(ea) ELSE Yield(eb),
                !.q = IF search.q < MaxQueries THEN @ + 1 ELSE @,
                !.pc = IF search.q < MaxQueries THEN "ai_search" ELSE "done"]

NextSearch ==
    /\ \/ \E agent \in SearchAgents, openai \in BOOLEAN, gemini \in BOOLEAN :
             StartSearch(agent, openai, gemini)
       \/ \E o \in EngineOutcomes : OpenAISearch(o)
       \/ \E o \in EngineOutcomes : GeminiSearch(o)
       \/ \E oa \in EngineOutcomes, ob \in EngineOutcomes : ai_search(oa, ob)
    /\ UNCHANGED <<pvars, svars, fvars, avars>>

\* ------------------------------------------------------------------------
\* The news writers: FederalRegisterAgent._store_results,
\* OtexaAgent._search_and_store, GeneralWatcher._parse_and_store
\* ------------------------------------------------------------------------
NewsAgents == {"FederalRegister", "OTEXA", "GeneralWatcher"}

\* one store loop per agent, all three able to run at the same time (the
\* pipeline's phase 1, an overlapping run's phase 2, a refresh of a source)
Writers == NewsAgents

\* doc.get("html_url", "") / ad.get("source_url", "")
ArticleUrls == {"", "https://a", "https://b"}

\* ad.get("title", "")
ArticleTitles == {"", "t"}

\* f"ai-search://{engine}/{uuid.uuid4().hex[:8]}": values of the random part
SyntheticUrls == {"ai-search://openai/1", "ai-search://openai/2"}

NoArticle == [source_url |-> NoStr, title |-> NoStr]

IdleWriter ==
    [pc |-> "idle", left |-> 0, cur |-> NoArticle, count |-> 0,
     rejected |-> 0]

InitNews ==
    /\ news_articles = EmptyBag
    /\ writer = [w \in Writers |-> IdleWriter]

\* news_articles.find_one(filt)
FindNews(docs, f, v) == {d \in BagToSet(docs) : d[f] = v}

\* (variant) news_articles has no unique index
NoUniqueIndex(docs, d) == TRUE

\* create_index("source_url", unique=True): insert_one raises
\* DuplicateKeyError when a document holds the same source_url
UniqueIndexAdmits(docs, d) == FindNews(docs, "source_url", d.source_url) = {}

\* the existence checks at the head of the loop body say "continue"
SkipsArticle(agent, docs, ad) ==
    IF agent = "GeneralWatcher"
    THEN \/ ad.title = ""
         \/ ad.source_url # "" /\ FindNews(docs, "source_url", ad.source_url) # {}
         \/ ad.source_url = "" /\ FindNews(docs, "title", ad.title) # {}
    ELSE \/ ad.source_url = ""
         \/ FindNews(docs, "source_url", ad.source_url) # {}

\* the writer after the loop body is over for one article
NextArticle(w) ==
    [w EXCEPT !.left = @ - 1, !.cur = NoArticle,
              !.pc = IF w.left > 1 THEN "loop" ELSE "done"]

\* a response with n articles reaches the store loop of agent w
StartStoring(w, n) ==
    /\ writer[w].pc = "idle"
    /\ writer' = [writer EXCEPT ![w] =
          [IdleWriter EXCEPT !.left = n, !.pc = "loop"]]
    /\ UNCHANGED news_articles

\* the head of the loop body for the next article: the find_one checks
\* (the documents of the Federal Register and the articles OTEXA's search
\* returns carry a title)
CheckExists(w, ad) ==
    /\ writer[w].pc = "loop"
    /\ w # "GeneralWatcher" => ad.title # ""
    /\ writer' = [writer EXCEPT ![w] =
          IF SkipsArticle(w, news_articles, ad)
          THEN NextArticle(writer[w])
          ELSE [writer[w] EXCEPT !.pc = "insert", !.cur = ad]]
    /\ UNCHANGED news_articles

\* "try: insert_one(...); count += 1; except Exception: pass"; synth is the
\* source_url GeneralWatcher makes up for an article without one
InsertOne(w, synth) ==
    /\ writer[w].pc = "insert"
    /\ LET ad == writer[w].cur
           doc == [source_url |-> IF ad.source_url # "" THEN ad.source_url
                                  ELSE synth,
                   title |-> ad.title]
       IN IF UniqueIndexAdmits(news_articles, doc)
          THEN /\ news_articles' = news_articles (+) SetToBag({doc})
               /\ writer' = [writer EXCEPT ![w] =
                     [NextArticle(writer[w]) EXCEPT !.count = @ + 1]]
          ELSE /\ news_articles' = news_articles
               /\ writer' = [writer EXCEPT ![w] =
                     [NextArticle(writer[w]) EXCEPT !.rejected = @ + 1]]

\* "return count"
FinishStoring(w) ==
    /\ writer[w].pc = "done"
    /\ writer' = [writer EXCEPT ![w] = IdleWriter]
    /\ UNCHANGED news_articles

NextNews ==
    /\ \/ \E w \in Writers, n \in 1..MaxArticles : StartStoring(w, n)
       \/ \E w \in Writers, u \in ArticleUrls, t \in ArticleTitles :
             CheckExists(w, [source_url |-> u, title |-> t])
       \/ \E w \in Writers, synth \in SyntheticUrls : InsertOne(w, synth)
       \/ \E w \in Writers : FinishStoring(w)
    /\ UNCHANGED <<pvars, svars, fvars, avars, qvars, cvars, dvars, wvars, gvars>>

\* ------------------------------------------------------------------------
\* The scheduler and its daily_pipeline job: init_scheduler
\* ------------------------------------------------------------------------
\* (variant) the job is registered without coalescing and without a limit on
\* how late a run may start
job_defaults_uncoalesced == [coalesce |-> FALSE, misfire_grace_time |-> None]

\* job_defaults of AsyncIOScheduler (misfire_grace_time 3600 s, in hours)
job_defaults == [coalesce |-> TRUE, misfire_grace_time |-> 1]

NoWake == [due |-> 0, started |-> 0]

\* the scheduler is started at 00:00; the first fire time is 02:00
InitCron ==
    cron = [now |-> 0, next_run_time |-> SCHEDULER_DAILY_HOUR,
            instances |-> 0, lastWake |-> NoWake]

\* the fire times of the trigger from next_run_time up to now, oldest first
RECURSIVE RunTimes(_, _)
RunTimes(next, now) ==
    IF next > now THEN <<>> ELSE <<next>> \o RunTimes(next + DAY, now)

\* "run_times[-1:] if coalesce else run_times"
Coalesced(run_times) ==
    IF job_defaults.coalesce /\ run_times # <<>>
    THEN <<run_times[Len(run_times)]>>
    ELSE run_times

\* a run time is run unless it is later than misfire_grace_time
WithinGrace(run_time, now) ==
    \/ job_defaults.misfire_grace_time = None
    \/ now - run_time <= job_defaults.misfire_grace_time

\* an hour passes without the scheduler processing its jobs (the event loop
\* is busy or the scheduler is paused)
HourPasses ==
    /\ cron.now < MaxHours
    /\ cron' = [cron EXCEPT !.now = @ + 1]

\* the scheduler wakes up and processes the due job: the run times are
\* coalesced, the job is submitted unless max_instances runs are in
\* progress, and the submitted run times within the grace time are run
ProcessJobs ==
    /\ cron.next_run_time <= cron.now
    /\ LET run_times == RunTimes(cron.next_run_time, cron.now)
           submitted == IF cron.instances >= max_instances THEN <<>>
                        ELSE Coalesced(run_times)
           runs == SelectSeq(submitted, LAMBDA t : WithinGrace(t, cron.now))
       IN cron' = [cron EXCEPT
             !.next_run_time = run_times[Len(run_times)] + DAY,
             !.instances = IF runs # <<>> THEN @ + 1 ELSE @,
             !.lastWake = [due |-> Len(run_times), started |-> Len(runs)]]

\* the runs of the pipeline started by the last submission are over
PipelineEnds ==
    /\ cron.instances > 0
    /\ cron' = [cron EXCEPT !.instances = @ - 1]

NextCron ==
    /\ \/ HourPasses
       \/ ProcessJobs
       \/ PipelineEnds
    /\ UNCHANGED <<pvars, svars, fvars, avars, qvars, nvars, dvars, wvars, gvars>>

\* ------------------------------------------------------------------------
\* Derived market data: job_derive_market_data
\* ------------------------------------------------------------------------
\* [str(i) for i in range(50, 64)]
TEXTILE_HS_CHAPTERS ==
    {"50", "51", "52", "53", "54", "55", "56", "57", "58", "59", "60", "61",
     "62", "63"}

\* (axis, code) of aggregate_segments
aggregate_segments ==
    {<<"product_category", "apparel">>,
     <<"product_category", "home_textiles">>,
     <<"product_category", "technical_textiles">>,
     <<"product_category", "raw_materials">>,
     <<"fiber_type", "cotton">>,
     <<"fiber_type", "synthetic">>,
     <<"fiber_type", "wool">>,
     <<"fiber_type", "silk">>}

\* new_segment_doc(axis, code, ...) for every chapter and aggregate segment
SegmentDocs ==
    {[axis |-> "hs_chapter", code |-> c, label_en |-> <<"Chapter", c>>] :
        c \in TEXTILE_HS_CHAPTERS}
    \cup {[axis |-> a[1], code |-> a[2], label_en |-> <<a[2]>>] :
             a \in aggregate_segments}

\* hs_code of a trade record, as its characters
HsCodes == {<<"6", "1", "0", "9">>, <<"T", "O", "T", "A", "L">>}

\* year of period_date
Years == {2023, 2024}

\* flow of a trade record: NoStr is null
Flows == {"import", "total", NoStr}

\* value_usd and value_eur of a trade record
TradeValues == {<<100, None>>, <<None, 7>>}

TradeRows ==
    {[hs_code |-> h, year |-> y, flow |-> f, value_usd |-> v[1],
      value_eur |-> v[2]] :
        h \in HsCodes, y \in Years, f \in Flows, v \in TradeValues}

\* {"$substr": ["$hs_code", 0, 2]}
Substr2(h) == SubSeq(h, 1, IF Len(h) < 2 THEN Len(h) ELSE 2)

\* {"$ifNull": ["$value_usd", {"$ifNull": ["$value_eur", 0]}]}
IfNullValue(r) ==
    IF r.value_usd # None THEN r.value_usd
    ELSE IF r.value_eur # None THEN r.value_eur ELSE 0

\* {"$sum": ...} over the records of a group
RECURSIVE SumValues(_)
SumValues(rows) ==
    IF rows = {} THEN 0
    ELSE LET r == CHOOSE x \in rows : TRUE
         IN IfNullValue(r) + SumValues(rows \ {r})

ALL == <<"A", "L", "L">>

\* the groups of the first aggregation: by year, chapter and flow
ChapterGroups(trade) ==
    {[year |-> r.year, chapter |-> Substr2(r.hs_code), flow |-> r.flow,
      total_value |->
          SumValues({x \in trade : /\ x.year = r.year
                                    /\ Substr2(x.hs_code) = Substr2(r.hs_code)
                                    /\ x.flow = r.flow})] : r \in trade}

\* the groups of the second aggregation: by year and flow
TotalGroups(trade) ==
    {[year |-> r.year, chapter |-> ALL, flow |-> r.flow,
      total_value |->
          SumValues({x \in trade : x.year = r.year /\ x.flow = r.flow})] :
        r \in trade}

\* "if not chapter or chapter in ("TO", "SI", ""): continue"
SkippedChapter(c) == c \in {<<>>, <<"T", "O">>, <<"S", "I">>}

\* the filter of find_one for a group: flow = r["_id"]["flow"] or "total"
SizeKey(g) ==
    [segment_code |-> g.chapter, geography_code |-> "MA", year |-> g.year,
     flow |-> IF g.flow = NoStr THEN "total" ELSE g.flow]

\* new_market_size_doc for a group
SizeDoc(g) ==
    [segment_code |-> g.chapter, geography_code |-> "MA", year |-> g.year,
     flow |-> IF g.flow = NoStr THEN "total" ELSE g.flow,
     value_usd |-> g.total_value]

KeyOfDoc(d) ==
    [segment_code |-> d.segment_code, geography_code |-> d.geography_code,
     year |-> d.year, flow |-> d.flow]

SegmentKey(d) == <<d.axis, d.code>>

\* the segments after the two seeding loops: a segment is inserted when
\* find_one({"axis", "code"}) finds none
SeedSegments(segs) ==
    segs \cup {d \in SegmentDocs :
                 \A e \in segs : SegmentKey(e) # SegmentKey(d)}

\* the entries a loop over groups may insert: for each key that no entry
\* holds, the entry of one of the groups with that key (the one the cursor
\* yields first)
Insertions(sizes, groups) ==
    {S \in SUBSET {SizeDoc(g) : g \in groups} :
        /\ \A d \in S : \A e \in sizes : KeyOfDoc(e) # KeyOfDoc(d)
        /\ \A d1 \in S, d2 \in S : KeyOfDoc(d1) = KeyOfDoc(d2) => d1 = d2
        /\ \A g \in groups :
              \/ \E e \in sizes : KeyOfDoc(e) = SizeKey(g)
              \/ \E d \in S : KeyOfDoc(d) = SizeKey(g)}

\* (variant) an entry that exists takes the value of the new aggregation
DeriveSizesRefreshing(sizes, groups, S) ==
    {e \in sizes : \A g \in groups : SizeKey(g) # KeyOfDoc(e)}
    \cup {SizeDoc(g) : g \in {x \in groups :
             \E e \in sizes : KeyOfDoc(e) = SizeKey(x)}}
    \cup S

\* the entries after a loop over groups that inserted S
DeriveSizes(sizes, groups, S) == sizes \cup S

NoRun == [segments_created |-> 0, size_entries_created |-> 0]

InitDerive ==
    /\ market_segments = {}
    /\ market_size_series = {}
    /\ derive = [trade |-> {}, fresh |-> FALSE, repeated |-> FALSE,
                 last |-> NoRun]

\* a trade agent stores a record
AddTradeRow(r) ==
    /\ r \notin derive.trade
    /\ Cardinality(derive.trade) < MaxTradeRows
    /\ derive' = [derive EXCEPT !.trade = @ \cup {r}, !.fresh = FALSE,
                                !.repeated = FALSE]
    /\ UNCHANGED <<market_segments, market_size_series>>

\* job_derive_market_data: the two seeding loops, the loop over the groups
\* by chapter and the loop over the totals
job_derive_market_data ==
    LET segs == SeedSegments(market_segments)
        byChapter == {g \in ChapterGroups(derive.trade) :
                         ~SkippedChapter(g.chapter)}
    IN \E S1 \in Insertions(market_size_series, byChapter) :
         LET sizes1 == DeriveSizes(market_size_series, byChapter, S1)
             totals == TotalGroups(derive.trade)
         IN \E S2 \in Insertions(sizes1, totals) :
              /\ market_segments' = segs
              /\ market_size_series' = DeriveSizes(sizes1, totals, S2)
              /\ derive' = [derive EXCEPT
                    !.fresh = TRUE,
                    !.repeated = derive.fresh,
                    !.last = [segments_created |->
                                  Cardinality(segs \ market_segments),
                              size_entries_created |->
                                  Cardinality(S1) + Cardinality(S2)]]

NextDerive ==
    /\ \/ \E r \in TradeRows : AddTradeRow(r)
       \/ job_derive_market_data
    /\ UNCHANGED <<pvars, svars, fvars, avars, qvars, nvars, cvars, wvars, gvars>>

\* ------------------------------------------------------------------------
\* The worker threads: _executor of the pipeline and the default executor
\* of the event loop used by refresh_data_source
\* ------------------------------------------------------------------------
\* jobs a phase hands to _executor: four in phase 1, one in phases 2, 3, 4
\* and 6, none in phase 5 (the frameworks are generated on the event loop)
JobsOfPhase(n) == IF n = 1 THEN 4 ELSE IF n \in {2, 3, 4, 6} THEN 1 ELSE 0

\* phases whose jobs run an agent
AgentPhases == {1, 2, 3}

IdlePool ==
    [phase |-> [r \in Runs |-> 0],
     pending |-> [r \in Runs |-> 0],
     queued |-> [r \in Runs |-> 0],
     refreshing |-> <<>>]

InitPool == pool = IdlePool

\* jobs of run r that a worker thread of _executor is executing
RunningOf(r) == pool.pending[r] - pool.queued[r]

RECURSIVE RunningUpTo(_)
RunningUpTo(n) == IF n = 0 THEN 0 ELSE RunningOf(n) + RunningUpTo(n - 1)

\* busy worker threads of _executor
Busy == RunningUpTo(MaxRuns)

\* run_daily_pipeline starts (scheduled or triggered) and hands the four
\* jobs of phase 1 to _executor
StartRun(r) ==
    /\ pool.phase[r] = 0
    /\ \A q \in 1..(r - 1) : pool.phase[q] # 0
    /\ pool' = [pool EXCEPT !.phase[r] = 1,
                            !.pending[r] = JobsOfPhase(1),
                            !.queued[r] = JobsOfPhase(1)]

\* an idle worker thread of _executor takes a job of run r from the queue
WorkerTakes(r) ==
    /\ pool.queued[r] > 0
    /\ Busy < max_workers
    /\ pool' = [pool EXCEPT !.queued[r] = @ - 1]

\* a job of run r returns or raises
JobEnds(r) ==
    /\ RunningOf(r) > 0
    /\ pool' = [pool EXCEPT !.pending[r] = @ - 1]

\* the await of the phase is over: the next phase hands its job to _executor
\* (after phase 6 the run is stored and over)
PhaseEnds(r) ==
    /\ pool.phase[r] \in 1..6
    /\ pool.pending[r] = 0
    /\ pool' = [pool EXCEPT
          !.phase[r] = IF @ = 6 THEN 0 ELSE @ + 1,
          !.pending[r] = IF pool.phase[r] = 6 THEN 0
                         ELSE JobsOfPhase(pool.phase[r] + 1),
          !.queued[r] = IF pool.phase[r] = 6 THEN 0
                        ELSE JobsOfPhase(pool.phase[r] + 1)]

\* POST /data-sources/{source_name}/refresh:
\* loop.run_in_executor(None, _run_agent, source_name): None is the default
\* executor of the loop, whose threads (min(32, cpu_count + 4), at least 5)
\* are not those of _executor; one of them starts the agent at once
refresh_data_source(src) ==
    /\ Len(pool.refreshing) < MaxRefreshes
    /\ pool' = [pool EXCEPT !.refreshing = Append(@, src)]

\* _run_agent returns
RefreshEnds(i) ==
    /\ i \in 1..Len(pool.refreshing)
    /\ pool' = [pool EXCEPT !.refreshing =
          SubSeq(@, 1, i - 1) \o SubSeq(@, i + 1, Len(@))]

NextPool ==
    /\ \/ \E r \in Runs : StartRun(r)
       \/ \E r \in Runs : WorkerTakes(r)
       \/ \E r \in Runs : JobEnds(r)
       \/ \E r \in Runs : PhaseEnds(r)
       \/ \E src \in Sources : refresh_data_source(src)
       \/ \E i \in 1..MaxRefreshes : RefreshEnds(i)
    /\ UNCHANGED <<pvars, svars, fvars, avars, qvars, nvars, cvars, dvars,
                   gvars>>

\* ------------------------------------------------------------------------
\* The framework-regeneration phase: job_generate_frameworks
\* ------------------------------------------------------------------------
\* "for fw_type in ("porter", "pestel", "tam_sam_som")"
FrameworkTypes == <<"porter", "pestel", "tam_sam_som">>

TypeSet == {FrameworkTypes[i] : i \in 1..Len(FrameworkTypes)}

\* a type the results dict has no entry for
NoEntry == <<>>

\* results[fw_type] = "success"
Success == <<"success">>

\* f"error: {exc}"
FrameworkError(exc) == <<"error", exc>>

\* how delete_many and generate_framework end
CallOutcomes == {"ok", "raises"}

IdlePhase ==
    [pc |-> "idle", i |-> 0,
     results |-> [t \in TypeSet |-> NoEntry],
     attempted |-> <<>>,
     failures |-> [t \in TypeSet |-> NoStr],
     framework_results |-> {},
     returned |-> FALSE,
     phase_result |-> [t \in TypeSet |-> NoEntry]]

InitFrameworks == fw = IdlePhase

\* the loop after the body is over for the type at position i
NextType(f) ==
    [f EXCEPT !.i = IF f.i < Len(FrameworkTypes) THEN @ + 1 ELSE @,
              !.pc = IF f.i < Len(FrameworkTypes) THEN "delete" ELSE "done"]

\* (variant) the exception leaves job_generate_frameworks
FailureLeavesJob(f, t, exc) == [f EXCEPT !.pc = "done"]

\* "except Exception as exc: results[fw_type] = f"error: {exc}""
FailureRecorded(f, t, exc) ==
    NextType([f EXCEPT !.results[t] = FrameworkError(exc)])

\* phase 5 starts: cached holds the types with a cached result
StartFrameworks(cached) ==
    /\ fw.pc = "idle"
    /\ ~fw.returned
    /\ fw' = [IdlePhase EXCEPT !.pc = "delete", !.i = 1,
                               !.framework_results = cached]

\* "await db.framework_results.delete_many({"framework_type": fw_type})"
DeleteCached(o) ==
    /\ fw.pc = "delete"
    /\ LET t == FrameworkTypes[fw.i]
           f == [fw EXCEPT !.attempted = Append(@, t)]
       IN fw' = IF o = "ok"
                THEN [f EXCEPT !.pc = "generate",
                               !.framework_results = @ \ {t}]
                ELSE FailureRecorded(
                         [f EXCEPT !.failures[t] = "delete_many"],
                         t, "delete_many")

\* "result = await generate_framework(db, fw_type); results[fw_type] =
\* "success""
GenerateFramework(o) ==
    /\ fw.pc = "generate"
    /\ LET t == FrameworkTypes[fw.i]
       IN fw' = IF o = "ok"
                THEN NextType([fw EXCEPT !.results[t] = Success,
                                         !.framework_results = @ \cup {t}])
                ELSE FailureRecorded(
                         [fw EXCEPT !.failures[t] = "generate_framework"],
                         t, "generate_framework")

\* "return results" and phase_results["frameworks"] = result
ReturnResults ==
    /\ fw.pc = "done"
    /\ fw' = [fw EXCEPT !.pc = "idle", !.returned = TRUE,
                        !.phase_result = fw.results]

NextFrameworks ==
    /\ \/ \E cached \in SUBSET TypeSet : StartFrameworks(cached)
       \/ \E o \in CallOutcomes : DeleteCached(o)
       \/ \E o \in CallOutcomes : GenerateFramework(o)
       \/ ReturnResults
    /\ UNCHANGED <<pvars, svars, fvars, avars, qvars, nvars, cvars, dvars,
                   wvars>>

vars == <<pvars, svars, fvars, avars, qvars, xvars>>

\* the state after construction: no run started, trade_data empty, no call
Init ==
    /\ InitPipeline /\ InitStore /\ InitFetch /\ InitAgent /\ InitSearch
    /\ InitNews /\ InitCron /\ InitDerive /\ InitPool /\ InitFrameworks

Spec == Init /\ [][NextPipeline /\ UNCHANGED <<svars, fvars, avars, qvars, xvars>>]_vars

SpecStore ==
    Init /\ [][NextStore /\ UNCHANGED <<fvars, avars, qvars, xvars>>]_vars

SpecFetch == Init /\ [][NextFetch /\ UNCHANGED <<avars, qvars, xvars>>]_vars

\* the thread in safe_request keeps running: client.get ends (the client has
\* a timeout of 60 s) and time.sleep returns
SpecFetchFair ==
    SpecFetch /\ WF_vars(NextFetch /\ UNCHANGED <<avars, qvars, xvars>>)

SpecAgent == Init /\ [][NextAgent /\ UNCHANGED <<qvars, xvars>>]_vars

SpecTracker == Init /\ [][NextTracker /\ UNCHANGED <<qvars, xvars>>]_vars

SpecSearch == Init /\ [][NextSearch /\ UNCHANGED xvars]_vars

SpecNews == Init /\ [][NextNews]_vars

SpecCron == Init /\ [][NextCron]_vars

SpecDerive == Init /\ [][NextDerive]_vars

SpecPool == Init /\ [][NextPool]_vars

SpecFrameworks == Init /\ [][NextFrameworks]_vars

\* ------------------------------------------------------------------------
\* Properties of the orchestrator and the scheduler
\* ------------------------------------------------------------------------
Phases == {PhaseOrder[i] : i \in 1..Len(PhaseOrder)}

Raised(r) == {j \in JobIdx : futures[r][j] = "raised"}

ReturnedError(r) == {j \in JobIdx : futures[r][j] = "error"}

EntriesWith(r, st) ==
    {i \in DOMAIN phase_results[r]["trade_agents"] :
        phase_results[r]["trade_agents"][i].status = st}

IsPrefix(s, t) == Len(s) <= Len(t) /\ \A i \in 1..Len(s) : s[i] = t[i]

\* C1: a manual trigger issued while a scheduled run of run_daily_pipeline is
\* executing starts no second run: no manual run is ever in progress beside
\* a scheduled one.
C1_NoManualRunBesideScheduled ==
    ~ \E r1, r2 \in Runs :
        /\ origin[r1] = "scheduled" /\ pc[r1] \in InProgress
        /\ origin[r2] = "manual" /\ pc[r2] \in InProgress

\* C2 (as claimed): in a run where exactly one trade-agent job raised,
\* trade_agents has 4 entries, 3 of them success entries and 1 an error
\* entry, and phases 2 to 6 were all executed.
C2_ThreeSuccessOneError ==
    \A r \in Runs :
        (pc[r] = "store" /\ Cardinality(Raised(r)) = 1) =>
            /\ Len(phase_results[r]["trade_agents"]) = 4
            /\ Cardinality(EntriesWith(r, "success")) = 3
            /\ Cardinality(EntriesWith(r, "error")) = 1
            /\ phaseLog[r] = PhaseOrder
            /\ DOMAIN phase_results[r] = Phases

\* C2 (amended): in a run where exactly one trade-agent job raised,
\* trade_agents has 4 entries: an error entry for the job that raised and,
\* for each other job, the dict it returned, so that the error entries are
\* the raising job plus the jobs that returned their own error dict and the
\* rest are success entries; phases 2 to 6 were all executed.
C2_PhaseIsolation ==
    \A r \in Runs :
        (pc[r] = "store" /\ Cardinality(Raised(r)) = 1) =>
            /\ Len(phase_results[r]["trade_agents"]) = 4
            /\ \A j \in Raised(r) :
                  phase_results[r]["trade_agents"][j].status = "error"
            /\ Cardinality(EntriesWith(r, "error"))
                  = 1 + Cardinality(ReturnedError(r))
            /\ Cardinality(EntriesWith(r, "success"))
                  = 3 - Cardinality(ReturnedError(r))
            /\ phaseLog[r] = PhaseOrder
            /\ DOMAIN phase_results[r] = Phases

\* a run in which otexa raised, the other three jobs succeeded and all six
\* phases have recorded their result
C2_Witness ==
    \E r \in Runs :
        /\ pc[r] = "store"
        /\ futures[r][4] = "raised"
        /\ \A j \in 1..3 : futures[r][j] = "success"
        /\ Cardinality(EntriesWith(r, "success")) = 3

\* C3: every invocation of run_daily_pipeline returns without raising and
\* leaves its own run record: no invocation ended with an exception and the
\* stored run records are as many as the finished invocations.
C3_EveryRunRecorded ==
    /\ \A r \in Runs : pc[r] # "raised"
    /\ Cardinality(scheduler_runs) = Cardinality({r \in Runs : pc[r] \in Ended})

\* C4: within one run the run document is written to scheduler_runs exactly
\* once, and only after phase 6 has recorded its result.
C4_WrittenOnceAfterPhase6 ==
    \A r \in Runs :
        /\ pc[r] \in Ended => writes[r] = 1
        /\ pc[r] \notin Ended => writes[r] = 0

\* C5: within one run the phases start in the fixed order, a phase starts
\* only when the previous one has recorded its result, and the news phase
\* starts only when all four trade-agent jobs have finished, successful or
\* failed.
C5_PhaseOrder ==
    \A r \in Runs :
        /\ IsPrefix(phaseLog[r], PhaseOrder)
        /\ \A i \in 2..Len(phaseLog[r]) :
              PhaseOrder[i - 1] \in DOMAIN phase_results[r]
        /\ Len(phaseLog[r]) >= 2 => \A j \in JobIdx : futures[r][j] \in Finished

\* the news phase has started in a run where a trade-agent job raised and
\* another returned normally
C5_Witness ==
    \E r \in Runs :
        /\ Len(phaseLog[r]) >= 2
        /\ \E j, k \in JobIdx : futures[r][j] = "raised" /\ futures[r][k] = "success"

\* C6: every document in scheduler_runs has status "completed", a
\* completed_at value and a phase_results entry for each of the six phases.
C6_NoPartialRun ==
    \A d \in scheduler_runs :
        /\ d.status = "completed"
        /\ d.completed_at # Unset
        /\ d.completed_at >= d.started_at
        /\ DOMAIN d.phase_results = Phases

\* a stored run in which a sequential phase failed
C6_Witness ==
    \E d \in scheduler_runs :
        \E p \in Phases \ {"trade_agents"} : d.phase_results[p].status = "error"

\* ------------------------------------------------------------------------
\* Properties of the trade-record store
\* ------------------------------------------------------------------------
\* the step is an update_one call of some agent thread
Stored == \E t \in Threads : thread'[t].count = thread[t].count + 1

\* number of documents of trade_data with the given source
RecordCount(src) ==
    LET ds == {d \in BagToSet(trade_data) : d.source = src}
    IN BagCardinality([d \in ds |-> CopiesIn(d, trade_data)])

Measures == {"value_usd", "value_eur", "weight_kg", "quantity"}

\* C7: storing (K, F2) over what an earlier store (K, F1) left gives exactly
\* one record for K whose fields are the earlier ones overlaid by F2: every
\* field of F2 has F2's value, every field absent from F2 (a measure reported
\* as null among them) keeps the value it had, and a measure never supplied
\* stays absent.
C7_MergeUpsert ==
    [][Stored =>
        LET K == lastOp'.filt
            F2 == lastOp'.upd
            old == Find(trade_data, K)
            new == Find(trade_data', K)
        IN /\ Cardinality(new) = 1
           /\ \A d \in new :
                /\ CopiesIn(d, trade_data') = 1
                /\ \A f \in DOMAIN K : d[f] = K[f]
                /\ \A f \in DOMAIN F2 : d[f] = F2[f]
                /\ \A o \in old : \A f \in DOMAIN o \ DOMAIN F2 : d[f] = o[f]
                /\ old = {} => \A f \in Measures \ DOMAIN F2 : d[f] = None]_vars

\* a Comtrade record stored with value 1200 and weight 50 was stored again
\* with value 1000 and a null weight: the record holds 1000 and still 50
C7_Witness ==
    /\ lastOp # NoOp
    /\ "weight_kg" \notin DOMAIN lastOp.upd
    /\ \E d \in Find(trade_data, lastOp.filt) :
          /\ d.weight_kg = 50
          /\ d.value_usd = lastOp.upd.value_usd
          /\ d.value_usd = 1000

\* C8: for each trade source, the number of stored trade records equals the
\* number of distinct natural keys stored so far by that source's agent,
\* whether its fetches ran one after the other or at the same time.
C8_DedupByNaturalKey ==
    \A src \in {"comtrade", "eurostat"} :
        RecordCount(src) = Cardinality({k \in seenKeys : k.source = src})

\* two fetches of the same agent run at the same time and have stored more
\* records between them than there are documents: a key was stored twice
C8_Witness ==
    \E t1, t2 \in Threads :
        /\ t1 # t2
        /\ thread[t1].agent # "idle" /\ thread[t2].agent # "idle"
        /\ thread[t1].count >= 1 /\ thread[t2].count >= 1
        /\ RecordCount(source) >= 1
        /\ RecordCount(source) < thread[t1].count + thread[t2].count

\* ------------------------------------------------------------------------
\* Properties of safe_request
\* ------------------------------------------------------------------------
Retryable == {NoResponse} \cup {s \in StatusCodes : s = 429 \/ s >= 500}

\* the call is over and each of its max_retries attempts got an answer of S
AllAttemptsGot(S) ==
    /\ result # "none"
    /\ call.max_retries > 0
    /\ Len(responses) = call.max_retries
    /\ \A i \in 1..Len(responses) : responses[i] \in S

Last(s) == s[Len(s)]

\* C9: when every attempt of a call received HTTP 429, the call made
\* exactly max_retries attempts, slept at least 10 s before attempt 2 and at
\* least 20 s before attempt 3 (at least 10 * 2^(k-1) s before attempt k+1),
\* and ended by raising the retries-exhausted error.
C9_RateLimitBackoff ==
    AllAttemptsGot({429}) =>
        /\ attempt = call.max_retries
        /\ Len(sleeps) >= call.max_retries - 1
        /\ \A k \in 1..(call.max_retries - 1) : sleeps[k] >= 10 * Pow2(k - 1)
        /\ result = "raised"
        /\ error.type = "RuntimeError"

\* a call with the default max_retries of 3 got 429 three times and raised
C9_Witness ==
    /\ call.max_retries = 3
    /\ responses = <<429, 429, 429>>
    /\ result = "raised"
    /\ sleeps[1] >= 10 /\ sleeps[2] >= 20

\* C10 (as claimed): a call whose max_retries attempts all failed in a
\* retryable way (429, 5xx, network error or timeout, in any mix) ended by
\* raising the retries-exhausted error that names the URL, whatever the last
\* failure was.
C10_AlwaysRetriesExhausted ==
    AllAttemptsGot(Retryable) =>
        /\ result = "raised"
        /\ error = RetriesExhausted(call)

\* C10 (amended): such a call ended by raising; the error is the
\* retries-exhausted error naming the URL when the last failure was HTTP 429
\* or 5xx, and the network error of the last attempt itself when the last
\* failure was a network error or timeout.
C10_ExhaustedOrPropagated ==
    AllAttemptsGot(Retryable) =>
        /\ result = "raised"
        /\ Last(responses) # NoResponse =>
              /\ error = RetriesExhausted(call)
              /\ error.url \in Urls
              /\ Len(sleeps) = call.max_retries
        /\ Last(responses) = NoResponse =>
              /\ error = HttpxError("RequestError")
              /\ Len(sleeps) = call.max_retries - 1

\* a call with the default max_retries got 429, then 503, then a network
\* error, and the network error left safe_request
C10_Witness ==
    /\ call.max_retries = 3
    /\ responses = <<429, 503, NoResponse>>
    /\ result = "raised"
    /\ error.type = "RequestError"

ClientErrors == {s \in StatusCodes : s >= 400 /\ s < 500 /\ s # 429}

\* C11: an attempt that received an HTTP error status other than 429 and
\* below 500 is the last one of its call: the call has raised the HTTP status
\* error on that attempt, without sleeping after it and without advancing to
\* another attempt, whatever attempts remained.
C11_ClientErrorFailsAtOnce ==
    \A i \in 1..Len(responses) :
        responses[i] \in ClientErrors =>
            /\ i = Len(responses)
            /\ result = "raised"
            /\ error = HttpxError("HTTPStatusError")
            /\ Len(sleeps) = i - 1
            /\ attempt = i - 1

\* a call with two attempts left got 404 on its first attempt and raised
C11_Witness ==
    /\ call.max_retries = 3
    /\ responses = <<404>>
    /\ result = "raised"
    /\ sleeps = <<>>

\* ------------------------------------------------------------------------
\* Properties of the agent jobs
\* ------------------------------------------------------------------------
\* fetch_data of the job has returned
Returned == job.pc \in {"status", "done"}

\* sum of the counts of the sub-fetches that ended "ok"
RECURSIVE SumOk(_, _)
SumOk(os, cs) ==
    IF os = <<>> THEN 0
    ELSE (IF Head(os) = "ok" THEN Head(cs) ELSE 0) + SumOk(Tail(os), Tail(cs))

\* C12: when ComtradeAgent.fetch_data started with api_calls_today at 480 or
\* more, it has returned 0 without any sub-fetch: no upstream call, no record
\* stored, and api_calls_today is what it was at the start.
C12_SoftQuotaGate ==
    (/\ job.agent = SOURCE_COMTRADE
     /\ job.keyed
     /\ job.calls_at_start >= 480
     /\ job.pc # "idle") =>
        /\ job.pc \in {"status", "done"}
        /\ job.total = 0
        /\ job.upstream = 0
        /\ job.outcomes = <<>>
        /\ job.counts = <<>>
        /\ job.pc = "status" =>
              GetApiCallsToday(data_source_status, SOURCE_COMTRADE)
                  = job.calls_at_start

\* fetch_data of a keyed Comtrade job that started at exactly 480 calls has
\* returned
C12_Witness ==
    /\ job.agent = SOURCE_COMTRADE
    /\ job.keyed
    /\ job.calls_at_start = 480
    /\ job.pc = "status"
    /\ job.total = 0

\* C13: for every source, api_calls_today equals the number of fetcher calls
\* the agent issued since the last reset, whether the calls succeeded or
\* failed.
C13_EveryCallCounted ==
    \A src \in Sources :
        GetApiCallsToday(data_source_status, src) = issued[src]

C17_ClientErrorMarksSource ==
    (/\ job.agent = SOURCE_COMTRADE
     /\ job.pc = "done"
     /\ job.outcomes = <<"client_error", "client_error">>) =>
        /\ RowsOf(data_source_status, SOURCE_COMTRADE) # {}
        /\ \A r \in RowsOf(data_source_status, SOURCE_COMTRADE) :
              /\ r.status = "error"
              /\ r.last_error_message \notin {NoStr, NullStr}

\* C18: a job of an agent whose credential is not configured makes no
\* upstream call, contributes no record, and does not set the source's
\* status to "error".
C18_MissingCredentialShortCircuits ==
    (NeedsKey(job.agent) /\ ~job.keyed /\ job.pc # "idle") =>
        /\ job.upstream = 0
        /\ job.outcomes = <<>>
        /\ job.total = 0
        /\ \A r \in RowsOf(data_source_status, job.agent) : r.status # "error"

\* ------------------------------------------------------------------------
\* Properties of the status tracker
\* ------------------------------------------------------------------------
\* C19: every status-tracker operation is an upsert keyed by source name:
\* there is one row for the source of the latest operation, and
\* increment_api_calls(n) on a source that had no row has left a row with
\* api_calls_today = n.
C19_TrackerOperationsUpsert ==
    lastCall.op \in {"update_status", "increment_api_calls"} =>
        /\ Cardinality(RowsOf(data_source_status, lastCall.src)) = 1
        /\ (lastCall.op = "increment_api_calls"
              /\ RowsOf(lastCall.before, lastCall.src) = {}) =>
              \A r \in RowsOf(data_source_status, lastCall.src) :
                  r.api_calls_today = lastCall.n

\* C20: after update_status("active", ...) on a source, whatever its row
\* was before, the source has one row, with status "active",
\* last_error_message null and last_successful_fetch the time of the call.
C20_MarkActive ==
    (lastCall.op = "update_status" /\ lastCall.status = "active") =>
        /\ Cardinality(RowsOf(data_source_status, lastCall.src)) = 1
        /\ \A r \in RowsOf(data_source_status, lastCall.src) :
              /\ r.status = "active"
              /\ r.last_error_message = NullStr
              /\ r.last_successful_fetch = lastCall.now
              /\ r.updated_at = lastCall.now

\* update_status("active") was applied, at a later second, to a source whose
\* row had status "error" and a message
C20_Witness ==
    /\ lastCall.op = "update_status"
    /\ lastCall.status = "active"
    /\ lastCall.now = 1
    /\ \E b \in RowsOf(lastCall.before, lastCall.src) :
          /\ b.status = "error"
          /\ b.last_error_message = "HTTP 403"
          /\ b.updated_at = 0
    /\ \A r \in RowsOf(data_source_status, lastCall.src) : r.status = "active"

\* ------------------------------------------------------------------------
\* Properties of the batch loops
\* ------------------------------------------------------------------------
\* C15: in every batch, of either agent, in which a record failed to parse
\* or normalize, no well-formed record is lost: the failing record is skipped
\* and the loop reaches and stores every other well-formed record.
C15_PerRecordIsolation ==
    \A t \in Threads :
        thread[t].failed > 0 => thread[t].lost = 0

\* ------------------------------------------------------------------------
\* Properties of the AI-search agents
\* ------------------------------------------------------------------------
\* C16: for each query of a finished fetch_data of an AI-search agent,
\* Gemini was called only if OpenAI failed or has no credential; when OpenAI
\* succeeded its result is the query's result and Gemini was not called;
\* when both failed the query yielded nothing.
C16_TwoEngineFallback ==
    search.pc = "done" =>
        \A i \in Queries :
            /\ search.b[i] # NotCalled => search.a[i] \in {"failed", NotCalled}
            /\ search.a[i] = NotCalled => ~search.openai
            /\ search.a[i] = "ok" =>
                  (search.b[i] = NotCalled /\ search.results[i] = Yield("ok"))
            /\ (search.a[i] # "ok" /\ search.b[i] # "ok") => search.results[i] = 0

\* the step is a status-tracker operation applied directly
TrackerStep == ops' = ops + 1

\* the value of counter c in the row of src, 0 when src has no row
CounterOf(rows, src, c) ==
    IF RowsOf(rows, src) = {} THEN 0
    ELSE LET r == CHOOSE x \in RowsOf(rows, src) : TRUE
         IN IF r[c] = None THEN 0 ELSE r[c]

\* C21: in every step other than the daily reset, no counter of any source
\* decreases: update_status adds its records argument to
\* records_fetched_today and leaves api_calls_today, increment_api_calls adds
\* its count to api_calls_today of an existing row and leaves
\* records_fetched_today, and the rows of the other sources keep both.
C21_CountersAdditive ==
    [][(TrackerStep /\ lastCall'.op # "reset_daily_counters") =>
        \A src \in Sources :
            LET calls == CounterOf(data_source_status, src, "api_calls_today")
                recs == CounterOf(data_source_status, src,
                                  "records_fetched_today")
                calls2 == CounterOf(data_source_status', src, "api_calls_today")
                recs2 == CounterOf(data_source_status', src,
                                   "records_fetched_today")
                mine == src = lastCall'.src
                had == RowsOf(data_source_status, src) # {}
            IN /\ calls2 >= calls /\ recs2 >= recs
               /\ recs2 = IF mine /\ lastCall'.op = "update_status"
                          THEN recs + lastCall'.n ELSE recs
               /\ calls2 = IF mine /\ had /\ lastCall'.op = "increment_api_calls"
                           THEN calls + lastCall'.n ELSE calls]_vars

\* increment_api_calls(1) was applied to a row that already counted 2 calls
\* and holds fetched records
C21_Witness ==
    /\ lastCall.op = "increment_api_calls"
    /\ lastCall.n = 1
    /\ CounterOf(lastCall.before, lastCall.src, "api_calls_today") = 2
    /\ CounterOf(data_source_status, lastCall.src, "api_calls_today") = 3
    /\ CounterOf(data_source_status, lastCall.src, "records_fetched_today") > 0

\* C22: the daily reset leaves the same sources with a row, each row with
\* both counters at 0 and with the status, last_successful_fetch,
\* last_error_message and updated_at it had: no row is created or deleted.
C22_ResetFrame ==
    [][(TrackerStep /\ lastCall'.op = "reset_daily_counters") =>
        /\ Cardinality(data_source_status') = Cardinality(data_source_status)
        /\ \A src \in Sources :
              Cardinality(RowsOf(data_source_status', src))
                  = Cardinality(RowsOf(data_source_status, src))
        /\ \A r \in data_source_status :
              \E r2 \in RowsOf(data_source_status', r.source_name) :
                  /\ r2.api_calls_today = 0
                  /\ r2.records_fetched_today = 0
                  /\ r2.status = r.status
                  /\ r2.last_successful_fetch = r.last_successful_fetch
                  /\ r2.last_error_message = r.last_error_message
                  /\ r2.updated_at = r.updated_at]_vars

\* the reset was applied to a row in status "error" with a message and with
\* fetched records counted, and the row kept its status and message
C22_Witness ==
    /\ lastCall.op = "reset_daily_counters"
    /\ \E b \in lastCall.before :
          /\ b.status = "error"
          /\ b.last_error_message = "HTTP 403"
          /\ b.records_fetched_today > 0
          /\ \E r \in RowsOf(data_source_status, b.source_name) :
                /\ r.records_fetched_today = 0
                /\ r.last_error_message = "HTTP 403"

\* ------------------------------------------------------------------------
\* Termination of safe_request
\* ------------------------------------------------------------------------
\* attempts made so far: the calls of client.get
Attempts == Len(responses)

\* C27: safe_request makes at most max_retries HTTP attempts and ends: a
\* call that returned did so on its first successful response, every earlier
\* attempt having failed; a call with max_retries = 0 makes no attempt; and
\* every call that was entered eventually returns or raises.
C27_TerminatesWithinRetries ==
    /\ [](/\ Attempts <= call.max_retries
          /\ result = "returned" =>
                /\ Attempts >= 1
                /\ Last(responses) < 400 /\ Last(responses) # NoResponse
                /\ \A i \in 1..(Attempts - 1) : responses[i] \in Retryable
          /\ (call # NoCall /\ call.max_retries = 0) => Attempts = 0
          /\ (result = "raised" /\ call.max_retries = 0) =>
                error = RetriesExhausted(call))
    /\ (call # NoCall) ~> (result \in {"returned", "raised"})

\* a call with max_retries = 0 raised without any attempt
C27_Witness ==
    /\ call # NoCall
    /\ call.max_retries = 0
    /\ result = "raised"
    /\ responses = <<>>
    /\ error.type = "RuntimeError"

\* ------------------------------------------------------------------------
\* Creation time of a trade record
\* ------------------------------------------------------------------------
\* C29: an upsert of a natural key that is not stored yet inserts a record
\* whose created_at is the time of the upsert; an upsert of a stored key
\* leaves created_at as it was and changes nothing but updated_at and the
\* fields it supplies; the records of every other key are left as they are.
C29_CreatedAtSetOnce ==
    [][Stored =>
        LET K == lastOp'.filt
            F == lastOp'.upd
            old == Find(trade_data, K)
            new == Find(trade_data', K)
        IN /\ old = {} => \A d \in new : d.created_at = clock
           /\ \A o \in old : \A d \in new :
                 /\ d.created_at = o.created_at
                 /\ d.created_at <= d.updated_at
                 /\ d.updated_at = F.updated_at
                 /\ \A f \in DOMAIN d :
                       d[f] # o[f] => f \in DOMAIN F
           /\ \A x \in BagToSet(trade_data) \ old :
                 CopiesIn(x, trade_data') = CopiesIn(x, trade_data)]_vars

\* a record inserted at time 0 was stored again at time 1: it still says it
\* was created at 0 and says it was updated at 1
C29_Witness ==
    /\ clock = 1
    /\ lastOp # NoOp
    /\ \E d \in Find(trade_data, lastOp.filt) :
          /\ d.created_at = 0
          /\ d.updated_at = 1

\* ------------------------------------------------------------------------
\* The Comtrade quota between two daily resets
\* ------------------------------------------------------------------------
\* C28: with Comtrade runs one after the other, the count of the un_comtrade
\* row never exceeds QUOTA_GATE + 1 = 481: a run that made a call passed the
\* gate at its start with fewer than 480 calls counted, makes at most two
\* sub-fetches, and adds at most 2 to the count it started from, the second
\* call being made even when the first one brought the count to the gate.
C28_QuotaOvershootBounded ==
    /\ GetApiCallsToday(data_source_status, SOURCE_COMTRADE) <= QUOTA_GATE + 1
    /\ job.agent = SOURCE_COMTRADE =>
          /\ Len(job.outcomes) <= 2
          /\ job.outcomes # <<>> => job.calls_at_start < QUOTA_GATE
          /\ GetApiCallsToday(data_source_status, SOURCE_COMTRADE)
                <= job.calls_at_start + 2

\* a Comtrade run that started at 479 calls made both of its calls: the row
\* counts 481
C28_Witness ==
    /\ job.agent = SOURCE_COMTRADE
    /\ job.calls_at_start = QUOTA_GATE - 1
    /\ Len(job.outcomes) = 2
    /\ GetApiCallsToday(data_source_status, SOURCE_COMTRADE) = QUOTA_GATE + 1

\* ------------------------------------------------------------------------
\* News articles under concurrent writers
\* ------------------------------------------------------------------------
\* writer w loses the race: the document it inserts is refused
LosesRace(w) == writer'[w].rejected = writer[w].rejected + 1

\* C23: under every interleaving of the news writers no two documents of
\* news_articles hold the same source_url; and a writer whose insert is
\* refused, because another writer stored the URL after its existence check,
\* leaves the collection as it is and goes on to its next article (or returns
\* its count when that was the last one).
C23_UniqueUrlUnderRaces ==
    /\ [](\A d \in BagToSet(news_articles) :
            /\ CopiesIn(d, news_articles) = 1
            /\ \A e \in BagToSet(news_articles) :
                  e.source_url = d.source_url => e = d)
    /\ [][\A w \in Writers : LosesRace(w) =>
            /\ FindNews(news_articles, "source_url", writer[w].cur.source_url)
                  # {}
               \/ writer[w].cur.source_url = ""
            /\ news_articles' = news_articles
            /\ writer'[w].count = writer[w].count
            /\ writer'[w].left = writer[w].left - 1
            /\ writer'[w].pc = IF writer'[w].left > 0 THEN "loop" ELSE "done"
          ]_vars

\* a writer lost the race on its first article, went on, stored its second
\* article and returned a count of 1
C23_Witness ==
    \E w \in Writers :
        /\ writer[w].pc = "done"
        /\ writer[w].rejected = 1
        /\ writer[w].count = 1
        /\ \E d \in BagToSet(news_articles) : d.source_url = "https://a"
        /\ \E d \in BagToSet(news_articles) : d.source_url = "https://b"

\* ------------------------------------------------------------------------
\* Coalescing of missed firings
\* ------------------------------------------------------------------------
\* C24: when the scheduler processes the daily_pipeline job with two or more
\* fire times missed, it starts at most one run of the pipeline for them.
C24_CoalescedCatchUp ==
    cron.lastWake.due >= 2 => cron.lastWake.started <= 1

\* the scheduler woke up with three fire times missed, the latest of them
\* within the grace time, and started one run
C24_Witness ==
    /\ cron.lastWake.due = 3
    /\ cron.lastWake.started = 1
    /\ cron.instances = 1

\* ------------------------------------------------------------------------
\* Idempotence of the derive job
\* ------------------------------------------------------------------------
\* a run of job_derive_market_data
DeriveRun == derive'.trade = derive.trade

\* C25: a run of the derive job keeps every entry of market_segments and
\* market_size_series as it is, adds entries only under keys that no entry
\* held, and reports the numbers of entries it added; a run on trade data
\* that has not changed since the previous run leaves both collections as
\* they are and reports 0 segments and 0 size entries created.
C25_DeriveIdempotent ==
    [][DeriveRun =>
        /\ market_segments \subseteq market_segments'
        /\ market_size_series \subseteq market_size_series'
        /\ \A d \in market_segments' \ market_segments :
              \A e \in market_segments : SegmentKey(e) # SegmentKey(d)
        /\ \A d \in market_size_series' \ market_size_series :
              \A e \in market_size_series : KeyOfDoc(e) # KeyOfDoc(d)
        /\ derive'.last.segments_created =
              Cardinality(market_segments' \ market_segments)
        /\ derive'.last.size_entries_created =
              Cardinality(market_size_series' \ market_size_series)
        /\ derive.fresh =>
              /\ market_segments' = market_segments
              /\ market_size_series' = market_size_series
              /\ derive'.last = NoRun]_vars

\* the job ran twice on the same two trade records: the second run reported
\* nothing created, and the store holds the chapter entry and the total
C25_Witness ==
    /\ derive.repeated
    /\ derive.last = NoRun
    /\ Cardinality(derive.trade) = 2
    /\ Cardinality(market_segments) = 22
    /\ \E d \in market_size_series :
          d.segment_code = <<"6", "1">> /\ d.value_usd = 107
    /\ \E d \in market_size_series : d.segment_code = ALL

\* ------------------------------------------------------------------------
\* Agent jobs executing at the same time
\* ------------------------------------------------------------------------
\* agent jobs some thread is executing: those of the agent phases of the
\* runs and the refreshes
RECURSIVE AgentJobsUpTo(_)
AgentJobsUpTo(n) ==
    IF n = 0 THEN 0
    ELSE (IF pool.phase[n] \in AgentPhases THEN RunningOf(n) ELSE 0)
         + AgentJobsUpTo(n - 1)

AgentJobsExecuting == AgentJobsUpTo(MaxRuns) + Len(pool.refreshing)

\* C26: at every moment at most 4 agent jobs execute at the same time,
\* overlapping pipeline runs and single-source refreshes included.
C26_AtMostFourAgentJobs == AgentJobsExecuting <= max_workers

\* ------------------------------------------------------------------------
\* Isolation of the framework types
\* ------------------------------------------------------------------------
\* the phase has gone through its loop
LoopOver == fw.pc = "done" \/ fw.returned

\* C30: the framework types are attempted in the order porter, pestel,
\* tam_sam_som; when the loop is over every type has been attempted once,
\* whatever failed before it, and the result holds one entry for each type:
\* the error entry of the failure of that type when invalidating or
\* regenerating it failed, "success" otherwise.
C30_EveryTypeAttempted ==
    /\ fw.attempted = SubSeq(FrameworkTypes, 1, Len(fw.attempted))
    /\ LoopOver =>
          /\ fw.attempted = FrameworkTypes
          /\ \A t \in TypeSet :
                /\ fw.results[t] # NoEntry
                /\ fw.failures[t] # NoStr =>
                      fw.results[t] = FrameworkError(fw.failures[t])
                /\ fw.failures[t] = NoStr => fw.results[t] = Success
    /\ fw.returned =>
          /\ fw.phase_result = fw.results
          /\ DOMAIN fw.phase_result = TypeSet

\* invalidating porter failed and regenerating pestel failed: both are
\* recorded as errors, tam_sam_som was still regenerated
C30_Witness ==
    /\ fw.returned
    /\ fw.phase_result["porter"] = FrameworkError("delete_many")
    /\ fw.phase_result["pestel"] = FrameworkError("generate_framework")
    /\ fw.phase_result["tam_sam_som"] = Success
    /\ "tam_sam_som" \in fw.framework_results

====
